---- MODULE Spec2Model ----
(***************************************************************************)
(* Tower sum-check argument of ceno_zkvm: the layered witness builder      *)
(* (scheme/utils.rs), TowerProver::create_proof (scheme/prover.rs) and     *)
(* TowerVerify::verify with its caller verify_opcode_proof                 *)
(* (scheme/verifier.rs).                                                   *)
(*                                                                         *)
(* Field elements are the integers 0..P-1 with arithmetic modulo the prime *)
(* P, used in place of the extension field E.  A vector (the evaluations   *)
(* of a multilinear extension) is a sequence; Rust index i is TLA+ index   *)
(* i+1.  A layer is a sequence of vectors, a witness a sequence of layers  *)
(* with the root layer first.                                              *)
(***************************************************************************)
EXTENDS Integers, Sequences, FiniteSets, TLC

(***************************************************************************)
(* Bounds of the model.                                                    *)
(***************************************************************************)
MaxLayers == 3
MaxWSeed == 1
MaxTSeed == 1
MaxDelta == 1
MaxInst == 3
MaxCount == 3
MaxLeafA == 2
MaxLeafB == 2
MaxMles == 5
MaxLogInst == 1
MaxLogSize == 3
MaxLimbs == 2
MaxPad == 2
MaxThreads == 2

(***************************************************************************)
(* The field.                                                              *)
(***************************************************************************)
P == 31

Fadd(a, b) == (a + b) % P
Fsub(a, b) == (a + P - b) % P
Fmul(a, b) == (a * b) % P

RECURSIVE Fpow(_, _)
Fpow(a, n) == IF n = 0 THEN 1 ELSE Fmul(a, Fpow(a, n - 1))

Finv(a) == Fpow(a, P - 2)

RECURSIVE SumSeq(_)
SumSeq(s) == IF Len(s) = 0 THEN 0 ELSE Fadd(Head(s), SumSeq(Tail(s)))

RECURSIVE ProdSeq(_)
ProdSeq(s) == IF Len(s) = 0 THEN 1 ELSE Fmul(Head(s), ProdSeq(Tail(s)))

RECURSIVE Pow2(_)
Pow2(n) == IF n = 0 THEN 1 ELSE 2 * Pow2(n - 1)

\* the largest entry of a sequence of naturals (0 for the empty sequence)
RECURSIVE MaxFrom(_, _)
MaxFrom(s, m) ==
  IF Len(s) = 0 THEN m
  ELSE MaxFrom(Tail(s), IF Head(s) > m THEN Head(s) ELSE m)

MaxSeq(s) == MaxFrom(s, 0)

\* multilinear_extensions::util::ceil_log2, for x >= 1
RECURSIVE ceil_log2_from(_, _)
ceil_log2_from(x, k) == IF Pow2(k) >= x THEN k ELSE ceil_log2_from(x, k + 1)

ceil_log2(x) == ceil_log2_from(x, 0)

(***************************************************************************)
(* Multilinear extensions.  Variable 0 is the least significant bit of the *)
(* index, and fixing variables proceeds from variable 0.                   *)
(***************************************************************************)
\* the values of a sequence expression, collected into a vector
collect(s) == <<>> \o s

fix_one_variable(v, r) ==
  collect([b \in 1..(Len(v) \div 2) |->
             Fadd(v[2 * b - 1], Fmul(r, Fsub(v[2 * b], v[2 * b - 1])))])

RECURSIVE evaluate(_, _)
evaluate(v, point) ==
  IF Len(point) = 0 THEN v[1]
  ELSE evaluate(fix_one_variable(v, Head(point)), Tail(point))

\* eq(r, .) over the hypercube: entry i is the product over the bits k of i
\* of (r[k] if the bit is set, 1 - r[k] otherwise)
eq_extend(lo, t) ==
  collect([i \in 1..(2 * Len(lo)) |->
             IF i <= Len(lo) THEN Fmul(lo[i], Fsub(1, t))
             ELSE Fmul(lo[i - Len(lo)], t)])

RECURSIVE build_eq_x_r_vec(_)
build_eq_x_r_vec(r) ==
  IF Len(r) = 0 THEN <<1>>
  ELSE eq_extend(build_eq_x_r_vec(SubSeq(r, 1, Len(r) - 1)), r[Len(r)])

\* eq(x, y) = prod_i (x_i y_i + (1 - x_i)(1 - y_i))
RECURSIVE eq_eval(_, _)
eq_eval(x, y) ==
  IF Len(x) = 0 THEN 1
  ELSE Fmul(Fadd(Fmul(Head(x), Head(y)),
                 Fmul(Fsub(1, Head(x)), Fsub(1, Head(y)))),
            eq_eval(Tail(x), Tail(y)))

(***************************************************************************)
(* Layered witness builder (scheme/utils.rs).                              *)
(***************************************************************************)
\* usize::is_power_of_two: false on 0
is_power_of_two(x) == x >= 1 /\ Pow2(ceil_log2(x)) = x

\* interleaving_mles_to_mles.  ok = FALSE stands for the call not returning:
\* one of its assertions, the subtraction in the shift on usize, zip_eq on
\* iterators of different lengths, or "instance[i]" out of the chunk.
interleaving_mles_to_mles(mles, log2_num_instances, log2_per_instance_size, num_limbs, default) ==
  LET num_instances == Pow2(log2_num_instances)
      failed == [ok |-> FALSE, mles |-> <<>>]
  IN IF \/ ~(is_power_of_two(num_limbs)
              /\ is_power_of_two(log2_per_instance_size))
        \/ Len(mles) = 0
        \/ \E i \in 1..Len(mles) : Len(mles[i]) # num_instances
     THEN failed
     ELSE
       LET per_fanin_len == Len(mles[1]) \div num_limbs
           log_num_limbs == ceil_log2(num_limbs)
           per_instance_size == Pow2(log2_per_instance_size)
       IN IF log2_num_instances + log2_per_instance_size < log_num_limbs
          THEN failed
          ELSE
            LET len == Pow2(log2_num_instances + log2_per_instance_size
                              - log_num_limbs)
                chunks == (len + per_instance_size - 1) \div per_instance_size
            IN IF \/ chunks # per_fanin_len
                  \/ len % per_instance_size # 0
                  \/ Len(mles) > per_instance_size
               THEN failed
               ELSE
                 [ok |-> TRUE,
                  mles |->
                    collect([fanin_index \in 1..num_limbs |->
                       LET start == per_fanin_len * (fanin_index - 1)
                       IN collect([pos \in 1..len |->
                             LET c == (pos - 1) \div per_instance_size
                                 i == (pos - 1) % per_instance_size
                             IN IF i < Len(mles)
                                THEN mles[i + 1][start + c + 1]
                                ELSE default])])]

\* a faulty variant of product_cur_layer: sums in place of products
product_cur_layer_sum(next_layer, num_product_fanin) ==
  LET cur_len == Len(next_layer[1]) \div num_product_fanin
  IN collect([index \in 1..num_product_fanin |->
        collect([j \in 1..cur_len |->
           SumSeq(collect([f \in 1..Len(next_layer) |->
                      next_layer[f][(index - 1) * cur_len + j]]))])])

\* a faulty variant of product_cur_layer: branch index is the pointwise
\* product of the two halves of next_layer's branch index
product_cur_layer_halves(next_layer, num_product_fanin) ==
  LET cur_len == Len(next_layer[1]) \div num_product_fanin
  IN collect([index \in 1..num_product_fanin |->
        collect([j \in 1..cur_len |->
           Fmul(next_layer[index][j], next_layer[index][j + cur_len])])])

\* one fold step of infer_tower_product_witness: the coarser layer built
\* from next_layer
product_cur_layer(next_layer, num_product_fanin) ==
  LET cur_len == Len(next_layer[1]) \div num_product_fanin
  IN collect([index \in 1..num_product_fanin |->
        collect([j \in 1..cur_len |->
           ProdSeq(collect([f \in 1..Len(next_layer) |->
                      next_layer[f][(index - 1) * cur_len + j]]))])])

RECURSIVE product_fold(_, _, _)
product_fold(acc, steps, num_product_fanin) ==
  IF steps = 0 THEN acc
  ELSE product_fold(
         Append(acc, product_cur_layer(acc[Len(acc)], num_product_fanin)),
         steps - 1, num_product_fanin)

Reverse(s) == collect([i \in 1..Len(s) |-> s[Len(s) + 1 - i]])

\* infer_tower_product_witness.  ok = FALSE stands for the call not
\* returning: the assertion on last_layer.len(), or the subtraction
\* num_vars - 1 on usize with num_vars = 0.
infer_tower_product_witness(num_vars, last_layer, num_product_fanin) ==
  IF Len(last_layer) # num_product_fanin \/ num_vars = 0
  THEN [ok |-> FALSE, layers |-> <<>>]
  ELSE [ok |-> TRUE,
        layers |-> Reverse(product_fold(<<last_layer>>, num_vars - 1,
                                        num_product_fanin))]

\* a faulty variant of logup_next_pair: the numerators are not crossed with
\* the other side's denominators
logup_next_pair_same_side(has_p, p, q) ==
  LET q1 == q[1]
      q2 == q[2]
      cur_len == Len(q1) \div 2
      p_evals(index) ==
        collect([j \in 1..cur_len |->
           LET k == cur_len * (index - 1) + j
           IN IF has_p
              THEN Fadd(Fmul(p[1][k], q1[k]), Fmul(p[2][k], q2[k]))
              ELSE Fadd(q1[k], q2[k])])
      q_evals(index) ==
        collect([j \in 1..cur_len |->
           LET k == cur_len * (index - 1) + j IN Fmul(q1[k], q2[k])])
  IN [has_p |-> TRUE,
      p |-> <<p_evals(1), p_evals(2)>>,
      q |-> <<q_evals(1), q_evals(2)>>]

\* a faulty variant of logup_next_pair: the denominators are added
logup_next_pair_added_denominators(has_p, p, q) ==
  LET q1 == q[1]
      q2 == q[2]
      cur_len == Len(q1) \div 2
      p_evals(index) ==
        collect([j \in 1..cur_len |->
           LET k == cur_len * (index - 1) + j
           IN IF has_p
              THEN Fadd(Fmul(p[2][k], q1[k]), Fmul(p[1][k], q2[k]))
              ELSE Fadd(q1[k], q2[k])])
      q_evals(index) ==
        collect([j \in 1..cur_len |->
           LET k == cur_len * (index - 1) + j IN Fadd(q1[k], q2[k])])
  IN [has_p |-> TRUE,
      p |-> <<p_evals(1), p_evals(2)>>,
      q |-> <<q_evals(1), q_evals(2)>>]

\* one fold step of infer_tower_logup_witness: from the pair (p, q) last
\* pushed (has_p = FALSE for the input layer, whose p is None) to the next
\* coarser pair
logup_next_pair(has_p, p, q) ==
  LET q1 == q[1]
      q2 == q[2]
      cur_len == Len(q1) \div 2
      p_evals(index) ==
        collect([j \in 1..cur_len |->
           LET k == cur_len * (index - 1) + j
           IN IF has_p
              THEN Fadd(Fmul(p[2][k], q1[k]), Fmul(p[1][k], q2[k]))
              ELSE Fadd(q1[k], q2[k])])
      q_evals(index) ==
        collect([j \in 1..cur_len |->
           LET k == cur_len * (index - 1) + j IN Fmul(q1[k], q2[k])])
  IN [has_p |-> TRUE,
      p |-> <<p_evals(1), p_evals(2)>>,
      q |-> <<q_evals(1), q_evals(2)>>]

RECURSIVE logup_fold(_, _)
logup_fold(acc, steps) ==
  IF steps = 0 THEN acc
  ELSE LET last == acc[Len(acc)]
       IN logup_fold(Append(acc, logup_next_pair(last.has_p, last.p, last.q)),
                     steps - 1)

\* a faulty variant of logup_layer_of: the input layer's p is all zero
logup_layer_of_zero_p(pair) ==
  IF ~pair.has_p
  THEN LET len == Len(pair.q[1])
       IN <<collect([j \in 1..len |-> 0]), collect([j \in 1..len |-> 0])>> \o pair.q
  ELSE pair.p \o pair.q

\* the final map of infer_tower_logup_witness: [p1, p2, q1, q2], the input
\* layer's p being all ones
logup_layer_of(pair) ==
  IF ~pair.has_p
  THEN LET len == Len(pair.q[1])
       IN <<collect([j \in 1..len |-> 1]), collect([j \in 1..len |-> 1])>> \o pair.q
  ELSE pair.p \o pair.q

\* the final map over the (p, q) pairs, root first
logup_layers(r_wit_layers) ==
  collect([i \in 1..Len(r_wit_layers) |-> logup_layer_of(r_wit_layers[i])])

infer_tower_logup_witness(q_mles) ==
  logup_layers(
    Reverse(logup_fold(<<[has_p |-> FALSE, p |-> <<>>, q |-> q_mles]>>,
                       ceil_log2(Len(q_mles[1])))))

(***************************************************************************)
(* Transcript: a deterministic, order-sensitive challenge source.  h is    *)
(* the sponge state, ops the labels of the operations performed so far,    *)
(* vals the value each operation absorbed or drew.                         *)
(***************************************************************************)
Absorb(h, v) == (h * 31 + v + 7) % 7919

LabelCode(label) ==
  CASE label = "alpha" -> 3
    [] label = "product_sum" -> 5
    [] label = "merge" -> 11
    [] OTHER -> 13

NewTranscript(seed) == [h |-> Absorb(1, seed), ops |-> <<>>, vals |-> <<>>]

append_message(tr, v) ==
  [h |-> Absorb(tr.h, v), ops |-> Append(tr.ops, "append"),
   vals |-> Append(tr.vals, v)]

RECURSIVE append_all(_, _)
append_all(tr, vs) ==
  IF Len(vs) = 0 THEN tr
  ELSE append_all(append_message(tr, Head(vs)), Tail(vs))

\* the challenge drawn, and the transcript after appending it
get_and_append_challenge(tr, label) ==
  LET h1 == Absorb(tr.h, LabelCode(label))
      c == h1 % P
  IN [c |-> c,
      tr |-> [h |-> Absorb(h1, c + 1), ops |-> Append(tr.ops, label),
              vals |-> Append(tr.vals, c)]]

RECURSIVE Powers(_, _, _)
Powers(alpha, cur, size) ==
  IF size = 0 THEN <<>> ELSE <<cur>> \o Powers(alpha, Fmul(cur, alpha), size - 1)

\* utils::get_challenge_pows: one challenge alpha, and its powers
\* alpha^0 .. alpha^(size-1)
get_challenge_pows(size, tr) ==
  LET d == get_and_append_challenge(tr, "alpha")
  IN [pows |-> Powers(d.c, 1, size), tr |-> d.tr]

(***************************************************************************)
(* Generic sum-check over a batched polynomial: a list of multilinear      *)
(* extensions (mles) and a list of terms [coef, idx], each standing for    *)
(* coef * prod_{i in idx} mles[i].                                         *)
(***************************************************************************)
\* a faulty variant of combine_partials: the threads share one cell, and
\* the thread that comes in last leaves its partial sum there
combine_partials_last_writer(partials, order) == partials[order[Len(order)]]

\* the threads' partial sums of a round polynomial's value, added up in the
\* order the threads come in
combine_partials(partials, order) ==
  SumSeq(collect([k \in 1..Len(order) |-> partials[order[k]]]))

\* the round polynomial at X: mles with variable 0 set to X, summed over the
\* remaining hypercube, thread th summing over its slice of the hypercube
RoundEval(num_threads, order, mles, terms, X) ==
  LET half == Len(mles[1]) \div 2
      per_thread == (half + num_threads - 1) \div num_threads
      at(i, b) == Fadd(mles[i][2 * b - 1],
                       Fmul(X, Fsub(mles[i][2 * b], mles[i][2 * b - 1])))
      termAt(t, b) ==
        Fmul(terms[t].coef,
             ProdSeq(collect([k \in 1..Len(terms[t].idx) |-> at(terms[t].idx[k], b)])))
      lo(th) == (th - 1) * per_thread + 1
      hi(th) == IF th * per_thread < half THEN th * per_thread ELSE half
      partial(th) ==
        SumSeq(collect([t \in 1..Len(terms) |->
                 SumSeq(collect([b \in 1..(hi(th) - lo(th) + 1) |->
                                   termAt(t, lo(th) + b - 1)]))]))
  IN combine_partials(collect([th \in 1..num_threads |-> partial(th)]), order)

RECURSIVE ProveRounds(_, _, _, _, _, _, _, _)
ProveRounds(num_threads, order, mles, terms, max_degree, todo, tr, acc) ==
  IF todo = 0
  THEN [proofs |-> acc.proofs, point |-> acc.point, tr |-> tr,
        finals |-> collect([i \in 1..Len(mles) |-> mles[i][1]])]
  ELSE LET after_challenge(msg, d) ==
             ProveRounds(num_threads, order,
                         collect([i \in 1..Len(mles) |->
                                    fix_one_variable(mles[i], d.c)]),
                         terms, max_degree, todo - 1, d.tr,
                         [proofs |-> Append(acc.proofs, msg),
                          point |-> Append(acc.point, d.c)])
           after_message(msg) ==
             after_challenge(msg, get_and_append_challenge(
                                    append_all(tr, msg), "Internal round"))
       IN after_message(collect([x \in 1..(max_degree + 1) |->
                                   RoundEval(num_threads, order, mles, terms,
                                             x - 1)]))

\* IOPProverStateV2::prove_batch_polys(num_threads, polys, transcript).
\* order is the order in which the threads' partial sums come in.
prove_batch_polys(num_threads, order, num_variables, max_degree, mles, terms, tr) ==
  ProveRounds(num_threads, order, mles, terms, max_degree, num_variables,
              append_message(append_message(tr, num_variables), max_degree),
              [proofs |-> <<>>, point |-> <<>>])

\* the polynomial of degree Len(evals) - 1 through (i, evals[i+1]), at r
interpolate_uni_poly(evals, r) ==
  LET n == Len(evals)
      num(i) == ProdSeq(collect([j \in 1..n |-> IF j = i THEN 1 ELSE Fsub(r, j - 1)]))
      den(i) == ProdSeq(collect([j \in 1..n |->
                           IF j = i THEN 1 ELSE Fsub((i - 1) % P, (j - 1) % P)]))
  IN SumSeq(collect([i \in 1..n |-> Fmul(evals[i], Fmul(num(i), Finv(den(i))))]))

RECURSIVE VerifyRounds(_, _, _, _, _, _)
VerifyRounds(proofs, max_degree, i, num_variables, tr, acc) ==
  IF i > num_variables
  THEN [ok |-> acc.ok, point |-> acc.point,
        expected_evaluation |-> acc.expected, tr |-> tr]
  ELSE IF i > Len(proofs)
  THEN [ok |-> FALSE, point |-> acc.point,
        expected_evaluation |-> acc.expected, tr |-> tr]
  ELSE LET msg == proofs[i]
           d == get_and_append_challenge(append_all(tr, msg), "Internal round")
           good == /\ Len(msg) = max_degree + 1
                   /\ Fadd(msg[1], msg[2]) = acc.expected
       IN VerifyRounds(proofs, max_degree, i + 1, num_variables, d.tr,
                       [ok |-> acc.ok /\ good,
                        point |-> Append(acc.point, d.c),
                        expected |-> IF Len(msg) = max_degree + 1
                                     THEN interpolate_uni_poly(msg, d.c)
                                     ELSE acc.expected])

\* IOPVerifierState::verify.  ok = FALSE: the sum-check verifier rejects
\* (a message is missing, has the wrong length, or does not sum to the
\* running claim).
sumcheck_verify(claimed_sum, proofs, max_degree, num_variables, tr) ==
  VerifyRounds(proofs, max_degree, 1, num_variables,
               append_message(append_message(tr, num_variables), max_degree),
               [ok |-> TRUE, point |-> <<>>, expected |-> claimed_sum])

(***************************************************************************)
(* Inputs: the specs the witness builder produces.  Spec i of kind product *)
(* with L layers has two leaf vectors of length 2^(L-1); with w = 0 the    *)
(* first leaf vector is all zero.  A logup spec has two leaf denominator   *)
(* vectors without zero entries.                                           *)
(***************************************************************************)
ProdLeaf(w, i, len) ==
  << collect([j \in 1..len |-> (w * (j + i)) % P]),
     collect([j \in 1..len |-> (2 + w + 3 * (j - 1) + i) % P]) >>

LogupLeafQ(w, i, len) ==
  << collect([j \in 1..len |-> 1 + ((w + j + i) % (P - 1))]),
     collect([j \in 1..len |-> 1 + ((2 * w + 3 * j + i) % (P - 1))]) >>

\* numerators other than the all-ones vector (a witness the builder never
\* returns)
LogupLeafForgedP(w, i, len) ==
  << collect([j \in 1..len |-> (2 + w + j) % P]),
     collect([j \in 1..len |-> (1 + i + 2 * j) % P]) >>

ProdSpec(w, i, L) ==
  infer_tower_product_witness(L, ProdLeaf(w, i, Pow2(L - 1)), 2).layers

LogupSpec(w, i, L) == infer_tower_logup_witness(LogupLeafQ(w, i, Pow2(L - 1)))

ForgedLogupSpec(w, i, L) ==
  logup_layers(
    Reverse(logup_fold(<<[has_p |-> TRUE,
                          p |-> LogupLeafForgedP(w, i, Pow2(L - 1)),
                          q |-> LogupLeafQ(w, i, Pow2(L - 1))]>>, L - 1)))

(***************************************************************************)
(* State.                                                                  *)
(***************************************************************************)
VARIABLES
  pc,            \* position in create_proof -> verify -> verify_opcode_proof
  prod_specs,    \* create_proof's prod_specs: a witness per product spec
  logup_specs,   \* create_proof's logup_specs
  forged,        \* TRUE when the logup leaf numerators are not all ones
  num_fanin,     \* the fan-in argument of create_proof and verify
  p_tr,          \* the prover's transcript
  p_round,       \* create_proof: the fold's round
  p_rt,          \* create_proof: out_rt, and at the end the point returned
  p_alpha,       \* create_proof: alpha_pows
  proofs,        \* create_proof: the TowerProofs being filled
  p_log,         \* create_proof: per round run, the specs that added terms
  tower_proofs,  \* verify's argument, read-only
  prod_out_evals,   \* verify's argument: the product specs' initial evaluations
  logup_out_evals,  \* verify's argument: the logup specs' initial evaluations
  expected_rounds,  \* verify's argument
  tampered,      \* what Tamper changed in tower_proofs (kind = "none": nothing)
  v_tr,          \* the verifier's transcript
  v_round,       \* verify: the try_fold's round
  v_pe,          \* verify: the fold's (point_and_eval)
  v_alpha,       \* verify: alpha_pows
  prod_spec_input_layer_eval,
  logup_spec_p_input_layer_eval,
  logup_spec_q_input_layer_eval,
  v_log,         \* verify: per round run, what the round computed
  v_result,      \* how verify ended: "none" while running
  v_ret,         \* the tuple verify returned in Ok, <<>> when there is none
  op_result,     \* verify_opcode_proof after the tower
  w_pc,          \* witness builder run: "input", "built" or "panic"
  w_in,          \* witness builder run: the input
  w_out          \* witness builder run: the layers returned

input_vars == <<prod_specs, logup_specs, forged, num_fanin>>
prover_vars == <<p_tr, p_round, p_rt, p_alpha, proofs, p_log>>
handoff_vars == <<tower_proofs, prod_out_evals, logup_out_evals,
                  expected_rounds, tampered>>
verifier_vars == <<v_tr, v_round, v_pe, v_alpha, prod_spec_input_layer_eval,
                   logup_spec_p_input_layer_eval,
                   logup_spec_q_input_layer_eval, v_log, v_result,
                   v_ret>>
wit_vars == <<w_pc, w_in, w_out>>
vars == <<pc, input_vars, prover_vars, handoff_vars, verifier_vars, op_result,
          wit_vars>>

\* PointAndEval::default()
PointAndEvalDefault == [point |-> <<>>, eval |-> 0]

\* TowerProofs::new
TowerProofs_new(prod_spec_size, logup_spec_size) ==
  [proofs |-> <<>>,
   prod_specs_eval |-> collect([i \in 1..prod_spec_size |-> <<>>]),
   logup_specs_eval |-> collect([i \in 1..logup_spec_size |-> <<>>]),
   prod_specs_points |-> collect([i \in 1..prod_spec_size |-> <<>>]),
   logup_specs_points |-> collect([i \in 1..logup_spec_size |-> <<>>])]

\* number of layers of every spec, product specs first
LayerCounts ==
  collect([i \in 1..Len(prod_specs) |-> Len(prod_specs[i])])
    \o collect([i \in 1..Len(logup_specs) |-> Len(logup_specs[i])])

(***************************************************************************)
(* TowerProver::create_proof (scheme/prover.rs).                           *)
(***************************************************************************)
\* a faulty variant of prover_spec_active: one round too many
prover_spec_active_one_more(round, witness) == round <= Len(witness)

\* "if round < s.witness.len()": spec s takes part in this round
prover_spec_active(round, witness) == round < Len(witness)

\* a faulty variant of max_round_index: the largest layer count
max_round_index_one_more == MaxSeq(LayerCounts)

\* max_round_index: the largest layer count, minus one
max_round_index == MaxSeq(LayerCounts) - 1

\* a faulty variant of layer_shape_ok: the vectors' length is not checked
layer_shape_ok_width_only(layer_polys, width, round) ==
  Len(layer_polys) = width

\* the sanity check on a round's layer: its number of vectors, and every
\* vector of length 2^(log_num_fanin * round)
layer_shape_ok(layer_polys, width, round) ==
  /\ Len(layer_polys) = width
  /\ \A f \in 1..Len(layer_polys) : Len(layer_polys[f]) = Pow2(round)

\* the loop over prod_specs: eq * alpha * f0 * f1 for every active spec
RECURSIVE add_prod_terms(_, _, _, _, _)
add_prod_terms(specs, alpha_pows, round, i, acc) ==
  IF i > Len(specs) THEN acc
  ELSE IF prover_spec_active(round, specs[i])
  THEN LET layer_polys == specs[i][round + 1]
           n == Len(acc.mles)
       IN add_prod_terms(specs, alpha_pows, round, i + 1,
            [mles |-> acc.mles \o layer_polys,
             terms |-> Append(acc.terms,
                         [coef |-> alpha_pows[i],
                          idx |-> <<1>> \o collect([k \in 1..Len(layer_polys) |-> n + k])]),
             owners |-> Append(acc.owners, <<"prod", i>>),
             ok |-> acc.ok /\ layer_shape_ok(layer_polys, num_fanin, round)])
  ELSE add_prod_terms(specs, alpha_pows, round, i + 1, acc)

\* the loop over logup_specs: eq * alpha_numerator * (p1 * q2 + p2 * q1) and
\* eq * alpha_denominator * (q1 * q2); the polynomials enter the batch in the
\* order p1, q2, p2, q1
RECURSIVE add_logup_terms(_, _, _, _, _, _)
add_logup_terms(specs, alpha_pows, num_prod, round, i, acc) ==
  IF i > Len(specs) THEN acc
  ELSE IF prover_spec_active(round, specs[i])
  THEN LET layer_polys == specs[i][round + 1]
           n == Len(acc.mles)
           alpha_numerator == alpha_pows[num_prod + 2 * (i - 1) + 1]
           alpha_denominator == alpha_pows[num_prod + 2 * (i - 1) + 2]
           p1 == layer_polys[1]
           p2 == layer_polys[2]
           q1 == layer_polys[3]
           q2 == layer_polys[4]
       IN add_logup_terms(specs, alpha_pows, num_prod, round, i + 1,
            [mles |-> acc.mles \o <<p1, q2, p2, q1>>,
             terms |-> acc.terms \o
                        <<[coef |-> alpha_numerator, idx |-> <<1, n + 1, n + 2>>],
                          [coef |-> alpha_numerator, idx |-> <<1, n + 3, n + 4>>],
                          [coef |-> alpha_denominator, idx |-> <<1, n + 4, n + 2>>]>>,
             owners |-> Append(acc.owners, <<"logup", i>>),
             ok |-> acc.ok /\ layer_shape_ok(layer_polys, 4, round)])
  ELSE add_logup_terms(specs, alpha_pows, num_prod, round, i + 1, acc)

\* the batched polynomial of a round (virtual_polys)
round_polys(round, out_rt, alpha_pows) ==
  add_logup_terms(logup_specs, alpha_pows, Len(prod_specs), round, 1,
    add_prod_terms(prod_specs, alpha_pows, round, 1,
      [mles |-> <<build_eq_x_r_vec(out_rt)>>, terms |-> <<>>,
       owners |-> <<>>, ok |-> TRUE]))

\* "collect evals belong to current spec", product specs: num_fanin
\* evaluations each, pushed with the round's point.  pos is evals_iter.
RECURSIVE push_prod_evals(_, _, _, _, _, _)
push_prod_evals(round, evals, rt_prime, i, pos, prf) ==
  IF i > Len(prod_specs) THEN [pos |-> pos, proofs |-> prf]
  ELSE IF prover_spec_active(round, prod_specs[i])
  THEN push_prod_evals(round, evals, rt_prime, i + 1, pos + num_fanin,
         [prf EXCEPT
            !.prod_specs_eval[i] =
               Append(@, collect([k \in 1..num_fanin |-> evals[pos + k - 1]])),
            !.prod_specs_points[i] = Append(@, rt_prime)])
  ELSE push_prod_evals(round, evals, rt_prime, i + 1, pos, prf)

\* a faulty variant of push_logup_evals: the evaluations are pushed in the
\* order they arrive in
RECURSIVE push_logup_evals_as_they_arrive(_, _, _, _, _, _)
push_logup_evals_as_they_arrive(round, evals, rt_prime, i, pos, prf) ==
  IF i > Len(logup_specs) THEN [pos |-> pos, proofs |-> prf]
  ELSE IF prover_spec_active(round, logup_specs[i])
  THEN push_logup_evals_as_they_arrive(round, evals, rt_prime, i + 1, pos + 4,
         [prf EXCEPT
            !.logup_specs_eval[i] =
               Append(@, collect([k \in 1..4 |-> evals[pos + k - 1]])),
            !.logup_specs_points[i] = Append(@, rt_prime)])
  ELSE push_logup_evals_as_they_arrive(round, evals, rt_prime, i + 1, pos, prf)

\* logup specs: the evaluations arrive as p1, q2, p2, q1 and are pushed as
\* [p1, p2, q1, q2]
RECURSIVE push_logup_evals(_, _, _, _, _, _)
push_logup_evals(round, evals, rt_prime, i, pos, prf) ==
  IF i > Len(logup_specs) THEN [pos |-> pos, proofs |-> prf]
  ELSE IF prover_spec_active(round, logup_specs[i])
  THEN LET p1 == evals[pos]
           q2 == evals[pos + 1]
           p2 == evals[pos + 2]
           q1 == evals[pos + 3]
       IN push_logup_evals(round, evals, rt_prime, i + 1, pos + 4,
            [prf EXCEPT
               !.logup_specs_eval[i] = Append(@, <<p1, p2, q1, q2>>),
               !.logup_specs_points[i] = Append(@, rt_prime)])
  ELSE push_logup_evals(round, evals, rt_prime, i + 1, pos, prf)

\* create_proof up to the fold: the assertions, TowerProofs::new, the first
\* alpha_pows and initial_rt
ProverStart ==
  /\ pc = "create_proof"
  /\ IF num_fanin # 2 \/ Len(prod_specs) = 0
     THEN /\ pc' = "prover_panic"
          /\ UNCHANGED prover_vars
     ELSE LET a == get_challenge_pows(Len(prod_specs) + Len(logup_specs) * 2, p_tr)
              d == get_and_append_challenge(a.tr, "product_sum")
          IN /\ pc' = "prover_round"
             /\ p_alpha' = a.pows
             /\ p_rt' = <<d.c>>
             /\ p_tr' = d.tr
             /\ p_round' = 1
             /\ proofs' = TowerProofs_new(Len(prod_specs), Len(logup_specs))
             /\ p_log' = <<>>
  /\ UNCHANGED <<input_vars, handoff_vars, verifier_vars, op_result, wit_vars>>

\* the thread counts proper_num_threads(out_rt.len(), max_threads) can hand
\* to the round, over every max_threads up to the bound
ThreadCounts == 1..MaxThreads

\* the orders in which num_threads threads can come in
ThreadOrders(num_threads) ==
  {order \in [1..num_threads -> 1..num_threads] :
     \A a, b \in 1..num_threads : order[a] = order[b] => a = b}

\* a faulty variant of concat_point: r_merge is left out
concat_point_without_merge(point, r_merge) == point

\* "[sumcheck_proofs.point, r_merge].concat()"
concat_point(point, r_merge) == point \o r_merge

\* the body of the fold's closure for one round, run on num_threads threads
\* that come in in the given order: the batched polynomial, the sum-check,
\* r_merge, next_alpha_pows and the evaluations pushed.  ok = FALSE when
\* one of its assertions fails.
prover_round_result(num_threads, order, round, out_rt, alpha_pows, prfs, tr) ==
  LET max_degree(polys) ==
        MaxSeq(collect([t \in 1..Len(polys.terms) |->
                          Len(polys.terms[t].idx)]))
      after_evals(polys, rt_prime, next_alpha, evals, pushed) ==
        IF ~polys.ok \/ pushed.pos # Len(evals) + 1
        THEN [ok |-> FALSE, tr |-> tr, rt |-> out_rt, alpha |-> alpha_pows,
              proofs |-> prfs, owners |-> <<>>]
        ELSE [ok |-> TRUE, tr |-> next_alpha.tr, rt |-> rt_prime,
              alpha |-> next_alpha.pows, proofs |-> pushed.proofs,
              owners |-> polys.owners]
      after_prod_evals(polys, rt_prime, next_alpha, evals, pushed1) ==
        after_evals(polys, rt_prime, next_alpha, evals,
                    push_logup_evals(round, evals, rt_prime, 1,
                                     pushed1.pos, pushed1.proofs))
      after_merge(polys, sc, rt_prime, m) ==
        after_prod_evals(
          polys, rt_prime,
          get_challenge_pows(Len(prod_specs) + Len(logup_specs) * 2, m.tr),
          sc.finals,
          push_prod_evals(round, sc.finals, rt_prime, 1, 2,
                          [prfs EXCEPT !.proofs = Append(@, sc.proofs)]))
      after_sumcheck(polys, sc, m) ==
        after_merge(polys, sc, concat_point(sc.point, <<m.c>>), m)
      after_polys(polys, sc) ==
        after_sumcheck(polys, sc, get_and_append_challenge(sc.tr, "merge"))
      with_polys(polys) ==
        after_polys(polys,
                    prove_batch_polys(num_threads, order, Len(out_rt),
                                      max_degree(polys), polys.mles,
                                      polys.terms, tr))
  IN with_polys(round_polys(round, out_rt, alpha_pows))

\* create_proof's fold from a round on, run on one thread
RECURSIVE create_proof_fold(_, _, _, _, _)
create_proof_fold(round, out_rt, alpha_pows, prfs, tr) ==
  IF round > max_round_index
  THEN [ok |-> TRUE, rt |-> out_rt, proofs |-> prfs, tr |-> tr]
  ELSE LET next(res) ==
             IF ~res.ok
             THEN [ok |-> FALSE, rt |-> out_rt, proofs |-> prfs, tr |-> tr]
             ELSE create_proof_fold(round + 1, res.rt, res.alpha, res.proofs,
                                    res.tr)
       IN next(prover_round_result(1, <<1>>, round, out_rt, alpha_pows, prfs,
                                   tr))

\* the prover's variables after the round
ProverRoundWith(num_threads, order) ==
  LET set(res) ==
        IF ~res.ok
        THEN /\ pc' = "prover_panic"
             /\ UNCHANGED prover_vars
        ELSE /\ pc' = "prover_round"
             /\ p_tr' = res.tr
             /\ p_round' = p_round + 1
             /\ p_rt' = res.rt
             /\ p_alpha' = res.alpha
             /\ proofs' = res.proofs
             /\ p_log' = Append(p_log, res.owners)
  IN set(prover_round_result(num_threads, order, p_round, p_rt, p_alpha,
                             proofs, p_tr))

\* one iteration of the fold over 1..=max_round_index
ProverRound ==
  /\ pc = "prover_round"
  /\ p_round <= max_round_index
  /\ \E num_threads \in ThreadCounts :
       \E order \in ThreadOrders(num_threads) :
         ProverRoundWith(num_threads, order)
  /\ UNCHANGED <<input_vars, handoff_vars, verifier_vars, op_result, wit_vars>>

\* the same iteration, the thread count and the order the threads came in
\* noted down in w_out
ProverRoundThreads ==
  /\ pc = "prover_round"
  /\ p_round <= max_round_index
  /\ \E num_threads \in ThreadCounts :
       \E order \in ThreadOrders(num_threads) :
         /\ ProverRoundWith(num_threads, order)
         /\ w_out' = Append(w_out, [num_threads |-> num_threads,
                                    order |-> order])
  /\ UNCHANGED <<input_vars, handoff_vars, verifier_vars, op_result, w_pc,
                 w_in>>

\* the fold is over: (next_rt, proofs) is returned
ProverReturn ==
  /\ pc = "prover_round"
  /\ p_round > max_round_index
  /\ pc' = "proved"
  /\ UNCHANGED <<input_vars, prover_vars, handoff_vars, verifier_vars,
                 op_result, wit_vars>>

(***************************************************************************)
(* The proof reaches the verifier, as the prover returned it or with one   *)
(* scalar of one evaluation list changed.                                  *)
(***************************************************************************)
\* "tower_proof.prod_specs_points[i].last()": None when no point was pushed
last_point(points) ==
  IF Len(points) = 0 THEN [some |-> FALSE, point |-> <<>>]
  ELSE [some |-> TRUE, point |-> points[Len(points)]]

\* the specs' layer-0 values, as ZKVMProver::create_proof puts them in the
\* proof (record_r_out_evals, ..., lk_q2_out_eval)
out_evals(specs) ==
  collect([i \in 1..Len(specs) |-> collect([k \in 1..Len(specs[i][1]) |-> specs[i][1][k][1]])])

Handoff ==
  /\ pc = "proved"
  /\ pc' = "verify"
  /\ tower_proofs' = proofs
  /\ prod_out_evals' = out_evals(prod_specs)
  /\ logup_out_evals' = out_evals(logup_specs)
  /\ expected_rounds' = LayerCounts
  /\ tampered' = [kind |-> "none", spec |-> 0, round |-> 0, pos |-> 0]
  /\ UNCHANGED <<input_vars, prover_vars, verifier_vars, op_result, wit_vars>>

Tamper ==
  /\ pc = "proved"
  /\ pc' = "verify"
  /\ prod_out_evals' = out_evals(prod_specs)
  /\ logup_out_evals' = out_evals(logup_specs)
  /\ expected_rounds' = LayerCounts
  /\ \E delta \in 1..MaxDelta :
       \/ \E i \in 1..Len(proofs.prod_specs_eval) :
            \E r \in 1..Len(proofs.prod_specs_eval[i]) :
              \E k \in 1..Len(proofs.prod_specs_eval[i][r]) :
                /\ tower_proofs' =
                     [proofs EXCEPT !.prod_specs_eval[i][r][k] = Fadd(@, delta)]
                /\ tampered' = [kind |-> "prod", spec |-> i, round |-> r,
                                pos |-> k]
       \/ \E i \in 1..Len(proofs.logup_specs_eval) :
            \E r \in 1..Len(proofs.logup_specs_eval[i]) :
              \E k \in 1..Len(proofs.logup_specs_eval[i][r]) :
                /\ tower_proofs' =
                     [proofs EXCEPT !.logup_specs_eval[i][r][k] = Fadd(@, delta)]
                /\ tampered' = [kind |-> "logup", spec |-> i, round |-> r,
                                pos |-> k]
  /\ UNCHANGED <<input_vars, prover_vars, verifier_vars, op_result, wit_vars>>

\* verify is handed the honest proof and initial evaluations of which one
\* scalar is not the one of the prover's output layer
ClaimOtherOutputs ==
  /\ pc = "proved"
  /\ pc' = "verify"
  /\ tower_proofs' = proofs
  /\ expected_rounds' = LayerCounts
  /\ \E delta \in 1..MaxDelta :
       \/ \E i \in 1..Len(prod_specs) : \E k \in 1..2 :
            /\ prod_out_evals' =
                 [out_evals(prod_specs) EXCEPT ![i][k] = Fadd(@, delta)]
            /\ logup_out_evals' = out_evals(logup_specs)
            /\ tampered' = [kind |-> "prod_out", spec |-> i, round |-> 0,
                            pos |-> k]
       \/ \E i \in 1..Len(logup_specs) : \E k \in 1..4 :
            /\ prod_out_evals' = out_evals(prod_specs)
            /\ logup_out_evals' =
                 [out_evals(logup_specs) EXCEPT ![i][k] = Fadd(@, delta)]
            /\ tampered' = [kind |-> "logup_out", spec |-> i, round |-> 0,
                            pos |-> k]
  /\ UNCHANGED <<input_vars, prover_vars, verifier_vars, op_result, wit_vars>>

\* the tower of a batch without product specs, as the fold of create_proof
\* computes it when nothing stops it before the fold
logup_only_tower(tr) ==
  LET fold(a, d) ==
        create_proof_fold(1, <<d.c>>, a.pows,
                          TowerProofs_new(0, Len(logup_specs)), d.tr)
      start(a) == fold(a, get_and_append_challenge(a.tr, "product_sum"))
  IN start(get_challenge_pows(Len(logup_specs) * 2, tr))

\* verify called as verify_table_proof calls it: no product spec, the
\* logup specs' initial evaluations and a tower for them
VerifyLogupOnly ==
  /\ pc = "prover_panic"
  /\ Len(prod_specs) = 0
  /\ num_fanin = 2
  /\ LET hand(res) ==
           /\ res.ok
           /\ tower_proofs' = res.proofs
     IN hand(logup_only_tower(p_tr))
  /\ pc' = "verify"
  /\ prod_out_evals' = <<>>
  /\ logup_out_evals' = out_evals(logup_specs)
  /\ expected_rounds' = LayerCounts
  /\ tampered' = [kind |-> "logup_only", spec |-> 0, round |-> 0, pos |-> 0]
  /\ UNCHANGED <<input_vars, prover_vars, verifier_vars, op_result, wit_vars>>

\* the ways a caller can break verify's contract with an otherwise honest
\* proof: another fan-in, an initial evaluation list too few, a list an
\* entry short, an expected round count too few
ContractViolations ==
  {"fanin", "prod_list_count", "prod_list_len", "logup_list_count",
   "logup_list_len", "rounds_count"}

\* verify called on the honest proof with arguments that break its contract
MisuseVerify ==
  /\ pc = "proved"
  /\ pc' = "verify"
  /\ tower_proofs' = proofs
  /\ \E kind \in ContractViolations :
       LET p_evals == out_evals(prod_specs)
           l_evals == out_evals(logup_specs)
       IN /\ kind \in {"logup_list_count", "logup_list_len"}
               => Len(logup_specs) > 0
          /\ tampered' = [kind |-> kind, spec |-> 0, round |-> 0, pos |-> 0]
          /\ num_fanin' = IF kind = "fanin" THEN 3 ELSE num_fanin
          /\ prod_out_evals' =
               CASE kind = "prod_list_count" -> Tail(p_evals)
                 [] kind = "prod_list_len" -> [p_evals EXCEPT ![1] = Tail(@)]
                 [] OTHER -> p_evals
          /\ logup_out_evals' =
               CASE kind = "logup_list_count" -> Tail(l_evals)
                 [] kind = "logup_list_len" -> [l_evals EXCEPT ![1] = Tail(@)]
                 [] OTHER -> l_evals
          /\ expected_rounds' =
               IF kind = "rounds_count" THEN Tail(LayerCounts) ELSE LayerCounts
  /\ UNCHANGED <<prod_specs, logup_specs, forged, prover_vars, verifier_vars,
                 op_result, wit_vars>>

\* the ways a proof can be too short for the expected round counts and
\* still pass verify's assertions, which look at the number of specs only
Truncations ==
  {"proofs_short", "prod_evals_short", "logup_evals_short", "logup_list_short"}

DropLast(seq) == SubSeq(seq, 1, Len(seq) - 1)

\* verify called with the honest proof cut short: the last round's sum-check
\* messages dropped, a spec's last evaluation list dropped, or a logup
\* spec's evaluation list left with 3 of its 4 scalars
TruncateProof ==
  /\ pc = "proved"
  /\ pc' = "verify"
  /\ prod_out_evals' = out_evals(prod_specs)
  /\ logup_out_evals' = out_evals(logup_specs)
  /\ expected_rounds' = LayerCounts
  /\ \E kind \in Truncations :
       /\ tampered' = [kind |-> kind, spec |-> 1, round |-> 0, pos |-> 0]
       /\ CASE kind = "proofs_short" ->
                 /\ Len(proofs.proofs) >= 1
                 /\ tower_proofs' = [proofs EXCEPT !.proofs = DropLast(@)]
            [] kind = "prod_evals_short" ->
                 /\ Len(proofs.prod_specs_eval[1]) >= 1
                 /\ tower_proofs' =
                      [proofs EXCEPT !.prod_specs_eval[1] = DropLast(@)]
            [] kind = "logup_evals_short" ->
                 /\ Len(proofs.logup_specs_eval) >= 1
                 /\ Len(proofs.logup_specs_eval[1]) >= 1
                 /\ tower_proofs' =
                      [proofs EXCEPT !.logup_specs_eval[1] = DropLast(@)]
            [] kind = "logup_list_short" ->
                 /\ Len(proofs.logup_specs_eval) >= 1
                 /\ Len(proofs.logup_specs_eval[1]) >= 1
                 /\ tower_proofs' =
                      [proofs EXCEPT !.logup_specs_eval[1][1] = DropLast(@)]
  /\ UNCHANGED <<input_vars, prover_vars, verifier_vars, op_result, wit_vars>>

(***************************************************************************)
(* TowerVerify::verify (scheme/verifier.rs).                               *)
(***************************************************************************)
num_prod_spec == Len(prod_out_evals)
num_logup_spec == Len(logup_out_evals)

\* "round < *max_round - 1": the spec has an evaluation list for this round
verifier_spec_active(round, max_round) == round < max_round - 1

\* a faulty variant of verifier_folds_next: one round too many
verifier_folds_next_one_more(next_round, max_round) == next_round < max_round

\* "next_round < max_round - 1": the merged evaluation enters the next claim
verifier_folds_next(next_round, max_round) == next_round < max_round - 1

\* a faulty variant of verifier_rounds: one round per layer
verifier_rounds_one_per_layer == MaxSeq(expected_rounds)

\* expected_max_round - 1: the number of rounds verify runs
verifier_rounds == MaxSeq(expected_rounds) - 1

\* initial_claim = sum_j alpha^j * out_j[rt]
initial_claim(alpha_pows, initial_rt) ==
  Fadd(SumSeq(collect([i \in 1..num_prod_spec |->
                 Fmul(evaluate(prod_out_evals[i], initial_rt), alpha_pows[i])])),
       SumSeq(collect([i \in 1..num_logup_spec |->
                 LET alpha_numerator == alpha_pows[num_prod_spec + 2 * (i - 1) + 1]
                     alpha_denominator == alpha_pows[num_prod_spec + 2 * (i - 1) + 2]
                     evals == logup_out_evals[i]
                 IN Fadd(Fmul(evaluate(<<evals[1], evals[2]>>, initial_rt),
                              alpha_numerator),
                         Fmul(evaluate(<<evals[3], evals[4]>>, initial_rt),
                              alpha_denominator))])))

\* a faulty variant of prod_combination: the first evaluation alone
prod_combination_first_only(evals) == evals[1]

\* "tower_proofs.prod_specs_eval[spec_index][round].iter().product()"
prod_combination(evals) == ProdSeq(evals)

\* product spec spec_index's summand of expected_evaluation
prod_expected_term(spec_index, round, out_rt, rt, alpha_pows) ==
  Fmul(Fmul(eq_eval(out_rt, rt), alpha_pows[spec_index]),
       IF verifier_spec_active(round, expected_rounds[spec_index])
       THEN prod_combination(tower_proofs.prod_specs_eval[spec_index][round + 1])
       ELSE 0)

\* "alpha_numerator * (p1 * q2 + p2 * q1) + alpha_denominator * (q1 * q2)"
\* over evals = [p1, p2, q1, q2]
logup_combination(evals, alpha_numerator, alpha_denominator) ==
  LET p1 == evals[1]
      p2 == evals[2]
      q1 == evals[3]
      q2 == evals[4]
  IN Fadd(Fmul(alpha_numerator, Fadd(Fmul(p1, q2), Fmul(p2, q1))),
          Fmul(alpha_denominator, Fmul(q1, q2)))

\* logup spec spec_index's summand of expected_evaluation
logup_expected_term(spec_index, round, out_rt, rt, alpha_pows) ==
  LET alpha_numerator == alpha_pows[num_prod_spec + 2 * (spec_index - 1) + 1]
      alpha_denominator == alpha_pows[num_prod_spec + 2 * (spec_index - 1) + 2]
  IN Fmul(eq_eval(out_rt, rt),
          IF verifier_spec_active(round, expected_rounds[num_prod_spec + spec_index])
          THEN logup_combination(
                 tower_proofs.logup_specs_eval[spec_index][round + 1],
                 alpha_numerator, alpha_denominator)
          ELSE 0)

\* a faulty variant of merged_eval: the coefficients are taken in reverse
merged_eval_coeffs_reversed(evals, coeffs) ==
  SumSeq(collect([k \in 1..(IF Len(evals) < Len(coeffs) THEN Len(evals) ELSE Len(coeffs))
            |-> Fmul(evals[k], coeffs[Len(coeffs) + 1 - k])]))

\* "merged evaluation": sum of evals[k] * coeffs[k]
merged_eval(evals, coeffs) ==
  SumSeq(collect([k \in 1..(IF Len(evals) < Len(coeffs) THEN Len(evals) ELSE Len(coeffs))
            |-> Fmul(evals[k], coeffs[k])]))

\* a faulty variant of evaluation_mismatch: the comparison is not made
evaluation_mismatch_ignored(expected_evaluation, sumcheck_claim) == FALSE

\* "if expected_evaluation != sumcheck_claim.expected_evaluation": the
\* round fails with TowerEvaluationMismatch
evaluation_mismatch(expected_evaluation, sumcheck_claim) ==
  expected_evaluation # sumcheck_claim.expected_evaluation

\* a faulty variant of verifier_next_alpha: the challenge is drawn and the
\* round's own alpha_pows are handed on all the same
verifier_next_alpha_reused(tr) ==
  [pows |-> v_alpha,
   tr |-> get_challenge_pows(num_prod_spec + num_logup_spec * 2, tr).tr]

\* a faulty variant of verifier_next_alpha: the round keeps its alpha_pows
\* and draws nothing
verifier_next_alpha_not_drawn(tr) == [pows |-> v_alpha, tr |-> tr]

\* the alpha batch drawn at the end of a verifier round
verifier_next_alpha(tr) ==
  get_challenge_pows(num_prod_spec + num_logup_spec * 2, tr)

\* the indexing verify does in a round stays within the proof
round_indices_ok(round) ==
  /\ round + 1 <= Len(tower_proofs.proofs)
  /\ \A i \in 1..num_prod_spec :
       verifier_spec_active(round, expected_rounds[i])
         => round + 1 <= Len(tower_proofs.prod_specs_eval[i])
  /\ \A i \in 1..num_logup_spec :
       verifier_spec_active(round, expected_rounds[num_prod_spec + i])
         => /\ round + 1 <= Len(tower_proofs.logup_specs_eval[i])
            /\ Len(tower_proofs.logup_specs_eval[i][round + 1]) >= 4

\* a faulty variant of verify_sanity_check: the length of expected_rounds is
\* not compared with the number of specs
verify_sanity_check_rounds_unchecked(fanin, p_out_evals, l_out_evals, proof, rounds) ==
  /\ fanin = 2
  /\ Len(p_out_evals) = Len(proof.prod_specs_eval)
  /\ \A i \in 1..Len(p_out_evals) : Len(p_out_evals[i]) = fanin
  /\ Len(l_out_evals) = Len(proof.logup_specs_eval)
  /\ \A i \in 1..Len(l_out_evals) : Len(l_out_evals[i]) = 4

\* a faulty variant of prod_spec_size: the number of point lists
prod_spec_size_of_points(proof) == Len(proof.prod_specs_points)

\* TowerProofs::prod_spec_size
prod_spec_size(proof) == Len(proof.prod_specs_eval)

\* TowerProofs::logup_spec_size
logup_spec_size(proof) == Len(proof.logup_specs_eval)

\* a faulty variant of verify_sanity_check: a product spec is asked for, as
\* create_proof asks for one
verify_sanity_check_needs_products(fanin, p_out_evals, l_out_evals, proof, rounds) ==
  /\ fanin = 2
  /\ Len(p_out_evals) > 0
  /\ Len(p_out_evals) = prod_spec_size(proof)
  /\ \A i \in 1..Len(p_out_evals) : Len(p_out_evals[i]) = fanin
  /\ Len(l_out_evals) = logup_spec_size(proof)
  /\ \A i \in 1..Len(l_out_evals) : Len(l_out_evals[i]) = 4
  /\ Len(rounds) = Len(p_out_evals) + Len(l_out_evals)

\* the assertions verify opens with: the fan-in, one initial evaluation list
\* per spec of the proof, num_fanin entries per product list and 4 per logup
\* list, one expected round count per spec
verify_sanity_check(fanin, p_out_evals, l_out_evals, proof, rounds) ==
  /\ fanin = 2
  /\ Len(p_out_evals) = prod_spec_size(proof)
  /\ \A i \in 1..Len(p_out_evals) : Len(p_out_evals[i]) = fanin
  /\ Len(l_out_evals) = logup_spec_size(proof)
  /\ \A i \in 1..Len(l_out_evals) : Len(l_out_evals[i]) = 4
  /\ Len(rounds) = Len(p_out_evals) + Len(l_out_evals)

\* verify up to the try_fold: the assertions, alpha_pows, initial_rt,
\* initial_claim and the default PointAndEval of every spec.  With no
\* expected round count at all, "expected_rounds.iter().max().unwrap()" is
\* what fails, after the first draws.
VerifyStart ==
  /\ pc = "verify"
  /\ IF ~verify_sanity_check(num_fanin, prod_out_evals, logup_out_evals,
                             tower_proofs, expected_rounds)
     THEN /\ pc' = "verifier_panic"
          /\ UNCHANGED verifier_vars
     ELSE IF Len(expected_rounds) = 0
     THEN LET a == get_challenge_pows(num_prod_spec + num_logup_spec * 2, v_tr)
              d == get_and_append_challenge(a.tr, "product_sum")
          IN /\ pc' = "verifier_panic"
             /\ v_alpha' = a.pows
             /\ v_tr' = d.tr
             /\ UNCHANGED <<v_round, v_pe, prod_spec_input_layer_eval,
                            logup_spec_p_input_layer_eval,
                            logup_spec_q_input_layer_eval, v_log, v_result,
                            v_ret>>
     ELSE LET a == get_challenge_pows(num_prod_spec + num_logup_spec * 2, v_tr)
              d == get_and_append_challenge(a.tr, "product_sum")
              initial_rt == <<d.c>>
          IN /\ pc' = "verify_round"
             /\ v_alpha' = a.pows
             /\ v_tr' = d.tr
             /\ v_pe' = [point |-> initial_rt,
                         eval |-> initial_claim(a.pows, initial_rt)]
             /\ v_round' = 0
             /\ prod_spec_input_layer_eval' =
                  collect([i \in 1..num_prod_spec |-> PointAndEvalDefault])
             /\ logup_spec_p_input_layer_eval' =
                  collect([i \in 1..num_logup_spec |-> PointAndEvalDefault])
             /\ logup_spec_q_input_layer_eval' =
                  collect([i \in 1..num_logup_spec |-> PointAndEvalDefault])
             /\ UNCHANGED <<v_log, v_result, v_ret>>
  /\ UNCHANGED <<input_vars, prover_vars, handoff_vars, op_result, wit_vars>>

\* one iteration of the try_fold over 0..(expected_max_round - 1).
\* IOPVerifierState::verify hands back a SubClaim, used as it is
\* ("sumcheck_claim.point", no "?"): when the sum-check verifier rejects
\* there is no value for it to hand back, and the call does not return.
\* Indexing the proof's lists beyond their end does not return either.
VerifyRound ==
  /\ pc = "verify_round"
  /\ v_round < verifier_rounds
  /\ IF ~round_indices_ok(v_round)
     THEN /\ pc' = "verifier_index_panic"
          /\ UNCHANGED verifier_vars
     ELSE
       LET round == v_round
           out_rt == v_pe.point
           out_claim == v_pe.eval
           after_sumcheck(sumcheck_claim, m, next_alpha, coeffs) ==
           LET
           rt == sumcheck_claim.point
           terms ==
             collect([i \in 1..num_prod_spec |->
                prod_expected_term(i, round, out_rt, rt, v_alpha)])
               \o collect([i \in 1..num_logup_spec |->
                     logup_expected_term(i, round, out_rt, rt, v_alpha)])
           expected_evaluation == SumSeq(terms)
           round_record(cs, pt, fs) ==
             [alpha_pows |-> v_alpha, out_rt |-> out_rt, rt |-> rt,
              terms |-> terms,
              subclaim |-> sumcheck_claim.expected_evaluation,
              coeffs |-> cs, rt_prime |-> pt, folds |-> fs]
           r_merge == <<m.c>>
           rt_prime == rt \o r_merge
           next_round == round + 1
           prod_act(i) == verifier_spec_active(round, expected_rounds[i])
           logup_act(i) ==
             verifier_spec_active(round, expected_rounds[num_prod_spec + i])
           prod_merged(i) ==
             merged_eval(tower_proofs.prod_specs_eval[i][round + 1], coeffs)
           p_merged(i) ==
             merged_eval(SubSeq(tower_proofs.logup_specs_eval[i][round + 1], 1, 2),
                         coeffs)
           q_merged(i) ==
             merged_eval(SubSeq(tower_proofs.logup_specs_eval[i][round + 1], 3, 4),
                         coeffs)
           folds ==
             collect([i \in 1..num_prod_spec |->
                IF prod_act(i) /\ verifier_folds_next(next_round, expected_rounds[i])
                THEN Fmul(next_alpha.pows[i], prod_merged(i))
                ELSE 0])
               \o collect([i \in 1..num_logup_spec |->
                     IF /\ logup_act(i)
                        /\ verifier_folds_next(next_round,
                                               expected_rounds[num_prod_spec + i])
                     THEN Fadd(Fmul(next_alpha.pows[num_prod_spec + 2 * (i - 1) + 1],
                                    p_merged(i)),
                               Fmul(next_alpha.pows[num_prod_spec + 2 * (i - 1) + 2],
                                    q_merged(i)))
                     ELSE 0])
       IN IF ~sumcheck_claim.ok
          THEN /\ pc' = "verifier_sumcheck_panic"
               /\ UNCHANGED verifier_vars
          ELSE IF evaluation_mismatch(expected_evaluation, sumcheck_claim)
          THEN /\ pc' = "verify_done"
               /\ v_result' = "mismatch"
               /\ v_tr' = sumcheck_claim.tr
               /\ v_log' = Append(v_log, round_record(<<>>, <<>>, <<>>))
               /\ UNCHANGED <<v_round, v_pe, v_alpha, prod_spec_input_layer_eval,
                              logup_spec_p_input_layer_eval,
                              logup_spec_q_input_layer_eval, v_ret>>
          ELSE /\ pc' = "verify_round"
               /\ v_tr' = next_alpha.tr
               /\ v_round' = next_round
               /\ v_alpha' = next_alpha.pows
               /\ v_pe' = [point |-> rt_prime, eval |-> SumSeq(folds)]
               /\ prod_spec_input_layer_eval' =
                    collect([i \in 1..num_prod_spec |->
                       IF prod_act(i)
                       THEN [point |-> rt_prime, eval |-> prod_merged(i)]
                       ELSE prod_spec_input_layer_eval[i]])
               /\ logup_spec_p_input_layer_eval' =
                    collect([i \in 1..num_logup_spec |->
                       IF logup_act(i)
                       THEN [point |-> rt_prime, eval |-> p_merged(i)]
                       ELSE logup_spec_p_input_layer_eval[i]])
               /\ logup_spec_q_input_layer_eval' =
                    collect([i \in 1..num_logup_spec |->
                       IF logup_act(i)
                       THEN [point |-> rt_prime, eval |-> q_merged(i)]
                       ELSE logup_spec_q_input_layer_eval[i]])
               /\ v_log' = Append(v_log, round_record(coeffs, rt_prime, folds))
               /\ UNCHANGED <<v_result, v_ret>>
           after_merge(sumcheck_claim, m) ==
             after_sumcheck(sumcheck_claim, m, verifier_next_alpha(m.tr),
                            build_eq_x_r_vec(<<m.c>>))
           with_claim(sumcheck_claim) ==
             after_merge(sumcheck_claim,
                         get_and_append_challenge(sumcheck_claim.tr, "merge"))
       IN with_claim(sumcheck_verify(out_claim, tower_proofs.proofs[round + 1],
                                     2 + 1, (round + 1) * 1, v_tr))
  /\ UNCHANGED <<input_vars, prover_vars, handoff_vars, op_result, wit_vars>>

\* the try_fold is over: Ok((next_rt.point, ...)) is returned
VerifyReturn ==
  /\ pc = "verify_round"
  /\ v_round >= verifier_rounds
  /\ pc' = "verify_done"
  /\ v_result' = "ok"
  /\ v_ret' = <<v_pe.point, prod_spec_input_layer_eval,
                logup_spec_p_input_layer_eval, logup_spec_q_input_layer_eval>>
  /\ UNCHANGED <<v_tr, v_round, v_pe, v_alpha, prod_spec_input_layer_eval,
                 logup_spec_p_input_layer_eval, logup_spec_q_input_layer_eval,
                 v_log>>
  /\ UNCHANGED <<input_vars, prover_vars, handoff_vars, op_result, wit_vars>>

(***************************************************************************)
(* ZKVMVerifier::verify_opcode_proof, from the return of TowerVerify::verify *)
(* to the main selector sum-check.                                         *)
(***************************************************************************)
\* a faulty variant of lookup_table_witness_is_one: any non-zero numerator
lookup_table_witness_is_nonzero(logup_p_evals) == logup_p_evals[1].eval # 0

\* "logup_p_evals[0].eval != E::ONE" is the error case
lookup_table_witness_is_one(logup_p_evals) == logup_p_evals[1].eval = 1

OpcodeAfterTower ==
  /\ pc = "verify_done"
  /\ op_result = "none"
  /\ op_result' =
       IF v_result # "ok" THEN "tower_failed"
       ELSE IF Len(v_ret[2]) # 2 \/ Len(v_ret[4]) # 1 \/ Len(v_ret[3]) # 1
       THEN "assert_failed"
       ELSE IF ~lookup_table_witness_is_one(v_ret[3])
       THEN "err_lookup_table_witness_not_one"
       ELSE "main_sel_sumcheck"
  /\ UNCHANGED <<pc, input_vars, prover_vars, handoff_vars, verifier_vars,
                 wit_vars>>

(***************************************************************************)
(* The witness builder run on its own: ZKVMProver::create_proof from the   *)
(* record counts to the tower witness of one spec.                         *)
(***************************************************************************)
\* the last layer handed to the builder: two vectors of length len holding
\* a, a + b, a + 2b, ...
LastLayer(a, b, len) ==
  << collect([j \in 1..len |-> (a + b * (j - 1)) % P]),
     collect([j \in 1..len |-> (a + b * (len + j - 1)) % P]) >>

\* log2_num_instances + log2_r_count
tower_num_vars(num_instances, count) ==
  ceil_log2(num_instances) + ceil_log2(count)

\* the instance count padded to the next power of two
next_pow2_instance_padding(num_instances) == Pow2(ceil_log2(num_instances))

\* usize::next_power_of_two: the smallest power of two >= x (1 for x = 0)
RECURSIVE next_power_of_two_from(_, _)
next_power_of_two_from(x, p) ==
  IF p >= x THEN p ELSE next_power_of_two_from(x, 2 * p)

next_power_of_two(x) == next_power_of_two_from(x, 1)

\* a faulty variant of dummy_table_item_multiplicity: the padded instances
\* are counted with the records of a real instance
dummy_table_item_multiplicity_unpadded_rows(num_lks, num_instances) ==
  LET num_padded_lks_per_instance == next_pow2_instance_padding(num_lks) - num_lks
      num_padded_instance ==
        next_pow2_instance_padding(num_instances) - num_instances
  IN num_padded_lks_per_instance * num_instances + num_lks * num_padded_instance

\* what verify_proof adds to dummy_table_item_multiplicity for an opcode
\* circuit
dummy_table_item_multiplicity(num_lks, num_instances) ==
  LET num_padded_lks_per_instance == next_pow2_instance_padding(num_lks) - num_lks
      num_padded_instance ==
        next_pow2_instance_padding(num_instances) - num_instances
  IN num_padded_lks_per_instance * num_instances
       + next_power_of_two(num_lks) * num_padded_instance

\* log2_num_instances + log2_r_count as verify_opcode_proof hands it to
\* verify in expected_rounds
expected_rounds_of(num_instances, count) ==
  ceil_log2(next_pow2_instance_padding(num_instances)) + ceil_log2(count)

\* the rounds of create_proof's fold in which a spec with this witness adds
\* terms, the fold running to max_index
prover_rounds_of(witness, max_index) ==
  Cardinality({round \in 1..max_index : prover_spec_active(round, witness)})

\* the rounds of verify's try_fold in which a spec with this expected round
\* count is read, the fold running over 0..(max_rounds - 1)
verifier_rounds_of(max_round, max_rounds) ==
  Cardinality({round \in 0..(max_rounds - 1) :
                 verifier_spec_active(round, max_round)})

WitBuildProduct ==
  /\ w_pc = "input"
  /\ w_in.kind = "prod"
  /\ LET nv == tower_num_vars(w_in.num_instances, w_in.count)
         res == infer_tower_product_witness(
                  nv, LastLayer(w_in.a, w_in.b, IF nv = 0 THEN 1 ELSE Pow2(nv - 1)),
                  2)
     IN /\ w_pc' = IF res.ok THEN "built" ELSE "panic"
        /\ w_out' = res.layers
  /\ UNCHANGED <<pc, input_vars, prover_vars, handoff_vars, verifier_vars,
                 op_result, w_in>>

\* the logup last layer has 2^(num_vars - 1) entries per vector: with
\* num_vars = 0 there is none to build
WitBuildLogup ==
  /\ w_pc = "input"
  /\ w_in.kind = "logup"
  /\ LET nv == tower_num_vars(w_in.num_instances, w_in.count)
     IN IF nv = 0
        THEN /\ w_pc' = "panic"
             /\ w_out' = <<>>
        ELSE /\ w_pc' = "built"
             /\ w_out' = infer_tower_logup_witness(
                           LastLayer(w_in.a + 1, w_in.b, Pow2(nv - 1)))
  /\ UNCHANGED <<pc, input_vars, prover_vars, handoff_vars, verifier_vars,
                 op_result, w_in>>

(***************************************************************************)
(* The leaf layer: interleaving_mles_to_mles called on its own, and as     *)
(* ZKVMProver::create_proof calls it before the tower witness is inferred. *)
(* w_in holds the call: count records of 2^log2_num_instances instances.   *)
(***************************************************************************)
\* record i of the run: seed, seed + 1, ... numbered through the records
RecordMle(seed, i, len) ==
  collect([c \in 1..len |-> (seed + len * (i - 1) + (c - 1)) % P])

\* the records of the run, one vector over the instances per record
RecordMles ==
  collect([i \in 1..w_in.count |->
             RecordMle(w_in.a, i, Pow2(w_in.log2_num_instances))])

\* a faulty variant of lk_padding_value: the constant 1
lk_padding_value_one(chip_record_alpha) == 1

\* the default handed to interleaving_mles_to_mles for the lookup records
lk_padding_value(chip_record_alpha) == chip_record_alpha

\* a call of interleaving_mles_to_mles
InterleaveCall ==
  /\ w_pc = "input"
  /\ w_in.kind = "interleave"
  /\ LET res == interleaving_mles_to_mles(
                  RecordMles, w_in.log2_num_instances,
                  w_in.log2_per_instance_size, w_in.num_limbs, w_in.b)
     IN /\ w_pc' = IF res.ok THEN "built" ELSE "panic"
        /\ w_out' = res.mles
  /\ UNCHANGED <<pc, input_vars, prover_vars, handoff_vars, verifier_vars,
                 op_result, w_in>>

\* r_records_last_layer and r_wit_layers: the read records interleaved with
\* E::ONE, then the product tower
LeafProduct ==
  /\ w_pc = "input"
  /\ w_in.kind = "leaf_prod"
  /\ LET last == interleaving_mles_to_mles(
                   RecordMles, w_in.log2_num_instances,
                   w_in.log2_per_instance_size, w_in.num_limbs, 1)
         tower(res) ==
           /\ w_pc' = IF res.ok THEN "built" ELSE "panic"
           /\ w_out' = res.layers
     IN IF ~last.ok
        THEN /\ w_pc' = "panic"
             /\ w_out' = <<>>
        ELSE tower(infer_tower_product_witness(
                     w_in.log2_num_instances + w_in.log2_per_instance_size,
                     last.mles, w_in.num_limbs))
  /\ UNCHANGED <<pc, input_vars, prover_vars, handoff_vars, verifier_vars,
                 op_result, w_in>>

\* lk_records_last_layer and lk_wit_layers: the lookup records interleaved
\* with chip_record_alpha, then the logup tower
LeafLogup ==
  /\ w_pc = "input"
  /\ w_in.kind = "leaf_logup"
  /\ LET last == interleaving_mles_to_mles(
                   RecordMles, w_in.log2_num_instances,
                   w_in.log2_per_instance_size, w_in.num_limbs,
                   lk_padding_value(w_in.b))
     IN IF ~last.ok \/ Len(last.mles) # 2
        THEN /\ w_pc' = "panic"
             /\ w_out' = <<>>
        ELSE /\ w_pc' = "built"
             /\ w_out' = infer_tower_logup_witness(last.mles)
  /\ UNCHANGED <<pc, input_vars, prover_vars, handoff_vars, verifier_vars,
                 op_result, w_in>>

(***************************************************************************)
(* The parallel loops of scheme/utils.rs, one task at a time.  A task is   *)
(* one closure call of a par_iter: chain is the outer parallel task it     *)
(* runs in, step the sequential iteration its loop belongs to, slot its    *)
(* index in the loop.  w_in holds the arguments, w_out the output buffers  *)
(* and the tasks that have run.                                            *)
(***************************************************************************)
\* a faulty variant of interleave_write_target: the chunk is not stepped to
interleave_write_target_no_chunk(chunk, i, per_instance_size) == i

\* "evaluations.par_chunks_mut(per_instance_size)" and "instance[i]": the
\* element of the limb's buffer that the task of a chunk writes for mle i
interleave_write_target(chunk, i, per_instance_size) ==
  chunk * per_instance_size + i

ParLen == Len(w_in.src[1])

\* the tasks of the loops of a call
ParTasks ==
  CASE w_in.kind = "par_interleave" ->
         {[chain |-> f, step |-> i, slot |-> c] :
            f \in 0..(w_in.num_limbs - 1), i \in 0..(Len(w_in.src) - 1),
            c \in 0..((ParLen \div w_in.num_limbs) - 1)}
    [] w_in.kind = "par_product" ->
         {[chain |-> 0, step |-> index * Len(w_in.src) + f, slot |-> j] :
            index \in 0..1, f \in 0..(Len(w_in.src) - 1),
            j \in 0..((ParLen \div 2) - 1)}
    [] w_in.kind = "par_logup" ->
         {[chain |-> 0, step |-> index, slot |-> j] :
            index \in 0..1, j \in 0..((ParLen \div 2) - 1)}

\* the output elements <<vector, position>> a task writes
write_targets(task) ==
  CASE w_in.kind = "par_interleave" ->
         {<<task.chain + 1,
            interleave_write_target(task.slot, task.step,
                                    Pow2(w_in.log2_per_instance_size)) + 1>>}
    [] w_in.kind = "par_product" ->
         {<<(task.step \div Len(w_in.src)) + 1, task.slot + 1>>}
    [] w_in.kind = "par_logup" ->
         {<<task.step + 1, task.slot + 1>>, <<task.step + 3, task.slot + 1>>}

\* a task can run when the loops before its own, in its chain, have joined
ParEnabled(task, done) ==
  \A t \in ParTasks :
    (t.chain = task.chain /\ t.step < task.step) => t \in done

\* the buffers before any task has run: vec![default; ..] per limb,
\* vec![E::ONE; cur_len] per branch, vec![E::ZERO; cur_len] for p and q
ParInitialBuffers ==
  CASE w_in.kind = "par_interleave" ->
         collect([f \in 1..w_in.num_limbs |->
            collect([pos \in 1..(Pow2(w_in.log2_num_instances
                                      + w_in.log2_per_instance_size)
                                   \div w_in.num_limbs) |-> w_in.default])])
    [] w_in.kind = "par_product" ->
         collect([index \in 1..2 |->
            collect([j \in 1..(ParLen \div 2) |-> 1])])
    [] w_in.kind = "par_logup" ->
         collect([v \in 1..4 |-> collect([j \in 1..(ParLen \div 2) |-> 0])])

\* the closure of the inner loop of interleaving_mles_to_mles
ParInterleaveTask ==
  /\ w_in.kind = "par_interleave"
  /\ w_pc = "running"
  /\ \E task \in ParTasks \ w_out.done :
       /\ ParEnabled(task, w_out.done)
       /\ LET start == (ParLen \div w_in.num_limbs) * task.chain
              value == w_in.src[task.step + 1][start + task.slot + 1]
              target == CHOOSE t \in write_targets(task) : TRUE
          IN w_out' = [buf |-> [w_out.buf EXCEPT ![target[1]][target[2]] = value],
                       done |-> w_out.done \cup {task}]
       /\ w_pc' = IF w_out.done \cup {task} = ParTasks THEN "joined"
                  ELSE "running"
  /\ UNCHANGED <<pc, input_vars, prover_vars, handoff_vars, verifier_vars,
                 op_result, w_in>>

\* the closure of the loop of infer_tower_product_witness:
\* "*evaluations *= *v"
ParProductTask ==
  /\ w_in.kind = "par_product"
  /\ w_pc = "running"
  /\ \E task \in ParTasks \ w_out.done :
       /\ ParEnabled(task, w_out.done)
       /\ LET index == task.step \div Len(w_in.src)
              f == task.step % Len(w_in.src)
              v == w_in.src[f + 1][index * (ParLen \div 2) + task.slot + 1]
          IN w_out' = [buf |-> [w_out.buf EXCEPT
                                  ![index + 1][task.slot + 1] = Fmul(@, v)],
                       done |-> w_out.done \cup {task}]
       /\ w_pc' = IF w_out.done \cup {task} = ParTasks THEN "joined"
                  ELSE "running"
  /\ UNCHANGED <<pc, input_vars, prover_vars, handoff_vars, verifier_vars,
                 op_result, w_in>>

\* the closures of the loops of infer_tower_logup_witness:
\* "*p_eval = *p2 * q1 + *p1 * q2; *q_eval = *q1 * q2" and, on the input
\* layer, "*p_res = *q1 + q2; *q_res = *q1 * q2"
ParLogupTask ==
  /\ w_in.kind = "par_logup"
  /\ w_pc = "running"
  /\ \E task \in ParTasks \ w_out.done :
       /\ ParEnabled(task, w_out.done)
       /\ LET k == (ParLen \div 2) * task.step + task.slot + 1
              q1 == w_in.src[1][k]
              q2 == w_in.src[2][k]
              p_eval == IF w_in.has_p
                        THEN Fadd(Fmul(w_in.p[2][k], q1), Fmul(w_in.p[1][k], q2))
                        ELSE Fadd(q1, q2)
              q_eval == Fmul(q1, q2)
          IN w_out' = [buf |-> [w_out.buf EXCEPT
                                  ![task.step + 1][task.slot + 1] = p_eval,
                                  ![task.step + 3][task.slot + 1] = q_eval],
                       done |-> w_out.done \cup {task}]
       /\ w_pc' = IF w_out.done \cup {task} = ParTasks THEN "joined"
                  ELSE "running"
  /\ UNCHANGED <<pc, input_vars, prover_vars, handoff_vars, verifier_vars,
                 op_result, w_in>>

(***************************************************************************)
(* verify called a second time, on a fresh copy of the transcript, with a  *)
(* proof that differs from the first one in prod_specs_points and          *)
(* logup_specs_points only.  w_in holds the transcript verify is handed,   *)
(* w_out how the first call ended.                                         *)
(***************************************************************************)
PointChanges == {"cleared", "dropped", "shifted"}

\* a proof with other points: every list of points emptied, the lists
\* themselves gone, or every coordinate moved by one
other_points(proof, change) ==
  LET shifted(points) ==
        collect([i \in 1..Len(points) |->
          collect([r \in 1..Len(points[i]) |->
            collect([c \in 1..Len(points[i][r]) |->
                       Fadd(points[i][r][c], 1)])])])
      cleared(points) == collect([i \in 1..Len(points) |-> <<>>])
  IN CASE change = "cleared" ->
            [proof EXCEPT !.prod_specs_points = cleared(@),
                          !.logup_specs_points = cleared(@)]
       [] change = "dropped" ->
            [proof EXCEPT !.prod_specs_points = <<>>,
                          !.logup_specs_points = <<>>]
       [] change = "shifted" ->
            [proof EXCEPT !.prod_specs_points = shifted(@),
                          !.logup_specs_points = shifted(@)]

VerifyAgain ==
  /\ pc \in {"verify_done", "verifier_panic", "verifier_sumcheck_panic",
             "verifier_index_panic"}
  /\ w_pc = "first"
  /\ \E change \in PointChanges :
       tower_proofs' = other_points(tower_proofs, change)
  /\ w_out' = [pc |-> pc, v_result |-> v_result, v_ret |-> v_ret,
               v_tr |-> v_tr, tower_proofs |-> tower_proofs]
  /\ w_pc' = "again"
  /\ pc' = "verify"
  /\ v_tr' = w_in.transcript
  /\ v_round' = 0
  /\ v_pe' = PointAndEvalDefault
  /\ v_alpha' = <<>>
  /\ prod_spec_input_layer_eval' = <<>>
  /\ logup_spec_p_input_layer_eval' = <<>>
  /\ logup_spec_q_input_layer_eval' = <<>>
  /\ v_log' = <<>>
  /\ v_result' = "none"
  /\ v_ret' = <<>>
  /\ UNCHANGED <<input_vars, prover_vars, prod_out_evals, logup_out_evals,
                 expected_rounds, tampered, op_result, w_in>>

(***************************************************************************)
(* Specifications.                                                         *)
(***************************************************************************)
\* (number of product specs, number of logup specs)
Shapes == {<<0, 1>>, <<1, 0>>, <<2, 0>>, <<1, 1>>, <<2, 1>>}

FaninChoices == {2, 3}

IdleProver ==
  /\ p_round = 0
  /\ p_rt = <<>>
  /\ p_alpha = <<>>
  /\ proofs = TowerProofs_new(0, 0)
  /\ p_log = <<>>

IdleVerifier ==
  /\ tower_proofs = TowerProofs_new(0, 0)
  /\ prod_out_evals = <<>>
  /\ logup_out_evals = <<>>
  /\ expected_rounds = <<>>
  /\ tampered = [kind |-> "none", spec |-> 0, round |-> 0, pos |-> 0]
  /\ v_round = 0
  /\ v_pe = PointAndEvalDefault
  /\ v_alpha = <<>>
  /\ prod_spec_input_layer_eval = <<>>
  /\ logup_spec_p_input_layer_eval = <<>>
  /\ logup_spec_q_input_layer_eval = <<>>
  /\ v_log = <<>>
  /\ v_result = "none"
  /\ v_ret = <<>>
  /\ op_result = "none"

IdleWit ==
  /\ w_pc = "idle"
  /\ w_in = [kind |-> "none", num_instances |-> 1, count |-> 1, a |-> 0, b |-> 0]
  /\ w_out = <<>>

\* the specs and the two transcripts, nothing run yet
InitRun ==
  /\ pc = "create_proof"
  /\ \E shape \in Shapes, w \in 0..MaxWSeed :
       /\ \E Ls \in [1..shape[1] -> 1..MaxLayers] :
            prod_specs = collect([i \in 1..shape[1] |-> ProdSpec(w, i, Ls[i])])
       /\ \E Ls \in [1..shape[2] -> 1..MaxLayers], f \in BOOLEAN :
            /\ forged = f
            /\ f => shape[2] > 0
            /\ logup_specs =
                 collect([i \in 1..shape[2] |->
                    IF f THEN ForgedLogupSpec(w, i, Ls[i])
                    ELSE LogupSpec(w, i, Ls[i])])
  /\ num_fanin \in FaninChoices
  /\ \E t \in 0..MaxTSeed :
       /\ p_tr = NewTranscript(t)
       /\ v_tr = NewTranscript(t)
  /\ IdleProver
  /\ IdleVerifier

Init ==
  /\ InitRun
  /\ IdleWit

Next ==
  \/ ProverStart
  \/ ProverRound
  \/ ProverReturn
  \/ Handoff
  \/ Tamper
  \/ MisuseVerify
  \/ TruncateProof
  \/ ClaimOtherOutputs
  \/ VerifyStart
  \/ VerifyRound
  \/ VerifyReturn
  \/ OpcodeAfterTower

Spec == Init /\ [][Next]_vars

\* the same runs, and verify called the way verify_table_proof calls it
SpecLogupOnly == Init /\ [][Next \/ VerifyLogupOnly]_vars

\* create_proof alone, on every thread count and thread order
NextDet ==
  \/ ProverStart
  \/ ProverRoundThreads
  \/ ProverReturn

SpecDet == Init /\ [][NextDet]_vars

InitTwice ==
  /\ InitRun
  /\ w_pc = "first"
  /\ w_in = [transcript |-> v_tr]
  /\ w_out = <<>>

NextTwice ==
  \/ Next
  \/ VerifyAgain

SpecTwice == InitTwice /\ [][NextTwice]_vars

InitWit ==
  /\ pc = "idle"
  /\ prod_specs = <<>>
  /\ logup_specs = <<>>
  /\ forged = FALSE
  /\ num_fanin = 2
  /\ p_tr = NewTranscript(0)
  /\ v_tr = NewTranscript(0)
  /\ IdleProver
  /\ IdleVerifier
  /\ w_pc = "input"
  /\ w_out = <<>>
  /\ \E kind \in {"prod", "logup"}, ni \in 1..MaxInst, c \in 1..MaxCount,
        a \in 0..MaxLeafA, b \in 0..MaxLeafB :
       w_in = [kind |-> kind, num_instances |-> ni, count |-> c,
               a |-> a, b |-> b]

NextWit ==
  \/ WitBuildProduct
  \/ WitBuildLogup

SpecWit == InitWit /\ [][NextWit]_vars

\* w_in.a is the records' seed, w_in.b the padding value (the default of a
\* direct call, chip_record_alpha of the lookup records)
InitLeaf ==
  /\ pc = "idle"
  /\ prod_specs = <<>>
  /\ logup_specs = <<>>
  /\ forged = FALSE
  /\ num_fanin = 2
  /\ p_tr = NewTranscript(0)
  /\ v_tr = NewTranscript(0)
  /\ IdleProver
  /\ IdleVerifier
  /\ w_pc = "input"
  /\ w_out = <<>>
  /\ \E n \in 1..MaxMles, la \in 0..MaxLogInst, pad \in 0..MaxPad :
       \/ \E L \in 0..MaxLogSize, k \in 1..MaxLimbs :
            w_in = [kind |-> "interleave", num_instances |-> Pow2(la),
                    count |-> n, a |-> 1, b |-> pad,
                    log2_num_instances |-> la,
                    log2_per_instance_size |-> L, num_limbs |-> k]
       \/ \E kind \in {"leaf_prod", "leaf_logup"} :
            w_in = [kind |-> kind, num_instances |-> Pow2(la),
                    count |-> n, a |-> 1, b |-> pad,
                    log2_num_instances |-> la,
                    log2_per_instance_size |-> ceil_log2(n), num_limbs |-> 2]

NextLeaf ==
  \/ InterleaveCall
  \/ LeafProduct
  \/ LeafLogup

SpecLeaf == InitLeaf /\ [][NextLeaf]_vars


\* the arguments of a loop's call: the mles of a call of
\* interleaving_mles_to_mles that passes its assertions, the finer layer
\* of a fold step of infer_tower_product_witness, or the (p, q) pair of a
\* fold step of infer_tower_logup_witness (p = None on the input layer)
InitPar ==
  /\ pc = "idle"
  /\ prod_specs = <<>>
  /\ logup_specs = <<>>
  /\ forged = FALSE
  /\ num_fanin = 2
  /\ p_tr = NewTranscript(0)
  /\ v_tr = NewTranscript(0)
  /\ IdleProver
  /\ IdleVerifier
  /\ w_pc = "running"
  /\ \/ \E n \in 1..MaxMles, la \in 0..MaxLogInst, L \in 0..MaxLogSize,
           k \in 1..MaxLimbs, pad \in 0..MaxPad :
          LET src == collect([i \in 1..n |-> RecordMle(1, i, Pow2(la))])
          IN /\ interleaving_mles_to_mles(src, la, L, k, pad).ok
             /\ w_in = [kind |-> "par_interleave", src |-> src,
                        has_p |-> FALSE, p |-> <<>>,
                        log2_num_instances |-> la,
                        log2_per_instance_size |-> L, num_limbs |-> k,
                        default |-> pad]
     \/ \E l \in 1..(MaxLayers - 1), a \in 0..MaxLeafA, b \in 0..MaxLeafB :
          w_in = [kind |-> "par_product", src |-> LastLayer(a, b, Pow2(l)),
                  has_p |-> FALSE, p |-> <<>>, log2_num_instances |-> l,
                  log2_per_instance_size |-> 0, num_limbs |-> 2,
                  default |-> 1]
     \/ \E l \in 1..(MaxLayers - 1), a \in 0..MaxLeafA, b \in 0..MaxLeafB :
          \/ w_in = [kind |-> "par_logup", src |-> LastLayer(a, b, Pow2(l)),
                     has_p |-> FALSE, p |-> <<>>, log2_num_instances |-> l,
                     log2_per_instance_size |-> 0, num_limbs |-> 2,
                     default |-> 0]
          \/ LET pair == logup_next_pair(FALSE, <<>>,
                                         LastLayer(a, b, Pow2(l + 1)))
             IN w_in = [kind |-> "par_logup", src |-> pair.q,
                        has_p |-> TRUE, p |-> pair.p,
                        log2_num_instances |-> l,
                        log2_per_instance_size |-> 0, num_limbs |-> 2,
                        default |-> 0]
  /\ w_out = [buf |-> ParInitialBuffers, done |-> {}]

NextPar ==
  \/ ParInterleaveTask
  \/ ParProductTask
  \/ ParLogupTask

SpecPar == InitPar /\ [][NextPar]_vars

(***************************************************************************)
(* ZKVMVerifier::verify_proof: the accumulation of the out evaluations of  *)
(* the opcode and table proofs and the final decision.  The proofs are in  *)
(* w_in, the accumulators and the returned value in w_out.  What           *)
(* verify_opcode_proof and verify_table_proof return for a proof is chosen *)
(* when the loop reaches it.                                               *)
(***************************************************************************)
MaxVmInst == 2
MaxOut == 2
MaxVmLks == 3

\* the out evaluations of the read and of the write tower (NUM_FANIN = 2)
OutEvalPairs == {<<1, 1>>, <<1, 2>>}

\* the values of a logup denominator's out evaluation and of challenges[0]
Denominators == {0, 1, 2}

VmOpcodeProofs ==
  [record_r_out_evals : OutEvalPairs, record_w_out_evals : OutEvalPairs,
   lk_p1_out_eval : {1}, lk_p2_out_eval : {1},
   lk_q1_out_eval : Denominators, lk_q2_out_eval : {1},
   num_instances : 1..MaxVmInst]

VmTableProofs ==
  [lk_p1_out_eval : 0..MaxOut, lk_p2_out_eval : {0},
   lk_q1_out_eval : Denominators, lk_q2_out_eval : {1}]

\* the decision with the read/write product check the code has commented
\* out put back
verify_proof_decision_with_rw_check(prod_r, prod_w, logup_sum) ==
  IF prod_r # prod_w THEN "err_prod_r_w"
  ELSE IF logup_sum # 0 THEN "err_logup_sum"
  ELSE "ok_true"

\* the end of verify_proof: Err(VerifyError("logup_sum != 0")) or Ok(true)
verify_proof_decision(prod_r, prod_w, logup_sum) ==
  IF logup_sum # 0 THEN "err_logup_sum" ELSE "ok_true"

\* `x.invert().unwrap()` panics on zero
invert_unwrap_panics(x) == x % P = 0

\* the accumulators after the body of the opcode loop for a verified proof
vm_after_opcode(acc, proof, num_lks) ==
  [acc EXCEPT
     !.dummy_table_item_multiplicity =
        @ + dummy_table_item_multiplicity(num_lks, proof.num_instances),
     !.prod_r = Fmul(@, ProdSeq(proof.record_r_out_evals)),
     !.prod_w = Fmul(@, ProdSeq(proof.record_w_out_evals)),
     !.logup_sum =
        Fadd(Fadd(@, Fmul(proof.lk_p1_out_eval, Finv(proof.lk_q1_out_eval))),
             Fmul(proof.lk_p2_out_eval, Finv(proof.lk_q2_out_eval))),
     !.opcodes = @ + 1]

\* the accumulators after the body of the table loop for a verified proof
vm_after_table(acc, proof) ==
  [acc EXCEPT
     !.logup_sum =
        Fsub(Fsub(@, Fmul(proof.lk_p1_out_eval, Finv(proof.lk_q1_out_eval))),
             Fmul(proof.lk_p2_out_eval, Finv(proof.lk_q2_out_eval))),
     !.tables = @ + 1]

\* logup_sum without the dummy padding term
vm_without_dummy(logup_sum, multiplicity, dummy_table_item) ==
  Fsub(logup_sum, Fmul(multiplicity % P, Finv(dummy_table_item)))

VmReturn(result) ==
  /\ UNCHANGED <<pc, input_vars, prover_vars, handoff_vars, verifier_vars,
                 op_result, w_in>>
  /\ w_pc' = IF result = "panic" THEN "vm_panic" ELSE "vm_done"

\* the commitments are written (PCSError on failure), the accumulators set
VmStart ==
  /\ w_pc = "vm_start"
  /\ \E written \in BOOLEAN :
       IF written
       THEN /\ w_out' = [prod_r |-> 1, prod_w |-> 1, logup_sum |-> 0,
                         dummy_table_item_multiplicity |-> 0,
                         opcodes |-> 0, tables |-> 0, result |-> "none"]
            /\ w_pc' = "vm_loops"
            /\ UNCHANGED <<pc, input_vars, prover_vars, handoff_vars,
                           verifier_vars, op_result, w_in>>
       ELSE /\ w_out' = [w_out EXCEPT !.result = "err_pcs"]
            /\ VmReturn("err_pcs")

\* one pass of the loop over vm_proof.opcode_proofs
VmOpcodeProof ==
  /\ w_pc = "vm_loops"
  /\ w_out.opcodes < Len(w_in.opcode_proofs)
  /\ LET proof == w_in.opcode_proofs[w_out.opcodes + 1]
     IN \E got \in {"ok", "err_vk_not_found", "err_opcode_proof"} :
          IF got # "ok"
          THEN /\ w_out' = [w_out EXCEPT !.result = got]
               /\ VmReturn(got)
          ELSE IF \/ invert_unwrap_panics(proof.lk_q1_out_eval)
                  \/ invert_unwrap_panics(proof.lk_q2_out_eval)
          THEN /\ w_out' = [w_out EXCEPT !.result = "panic"]
               /\ VmReturn("panic")
          ELSE /\ w_out' = vm_after_opcode(w_out, proof, w_in.num_lks)
               /\ UNCHANGED <<pc, input_vars, prover_vars, handoff_vars,
                              verifier_vars, op_result, w_in, w_pc>>

\* one pass of the loop over vm_proof.table_proofs
VmTableProof ==
  /\ w_pc = "vm_loops"
  /\ w_out.opcodes = Len(w_in.opcode_proofs)
  /\ w_out.tables < Len(w_in.table_proofs)
  /\ LET proof == w_in.table_proofs[w_out.tables + 1]
     IN \E got \in {"ok", "err_vk_not_found", "err_table_proof"} :
          IF got # "ok"
          THEN /\ w_out' = [w_out EXCEPT !.result = got]
               /\ VmReturn(got)
          ELSE IF \/ invert_unwrap_panics(proof.lk_q1_out_eval)
                  \/ invert_unwrap_panics(proof.lk_q2_out_eval)
          THEN /\ w_out' = [w_out EXCEPT !.result = "panic"]
               /\ VmReturn("panic")
          ELSE /\ w_out' = vm_after_table(w_out, proof)
               /\ UNCHANGED <<pc, input_vars, prover_vars, handoff_vars,
                              verifier_vars, op_result, w_in, w_pc>>

\* after the loops: the dummy padding term is taken off and the sum tested
VmDecide ==
  /\ w_pc = "vm_loops"
  /\ w_out.opcodes = Len(w_in.opcode_proofs)
  /\ w_out.tables = Len(w_in.table_proofs)
  /\ IF invert_unwrap_panics(w_in.dummy_table_item)
     THEN /\ w_out' = [w_out EXCEPT !.result = "panic"]
          /\ VmReturn("panic")
     ELSE LET logup_sum ==
                vm_without_dummy(w_out.logup_sum,
                                 w_out.dummy_table_item_multiplicity,
                                 w_in.dummy_table_item)
              result == verify_proof_decision(w_out.prod_r, w_out.prod_w,
                                              logup_sum)
          IN /\ w_out' = [w_out EXCEPT !.logup_sum = logup_sum,
                                       !.result = result]
             /\ VmReturn(result)

\* a vm proof of up to two opcode proofs and up to one table proof, the
\* challenge the transcript gives for the dummy table item, and
\* lk_expressions.len() of the opcode circuits
InitVm ==
  /\ pc = "idle"
  /\ prod_specs = <<>>
  /\ logup_specs = <<>>
  /\ forged = FALSE
  /\ num_fanin = 2
  /\ p_tr = NewTranscript(0)
  /\ v_tr = NewTranscript(0)
  /\ IdleProver
  /\ IdleVerifier
  /\ w_pc = "vm_start"
  /\ \E ops \in {<<>>} \cup {<<a>> : a \in VmOpcodeProofs}
                  \cup {<<a, b>> : a \in VmOpcodeProofs, b \in VmOpcodeProofs},
        tabs \in {<<>>} \cup {<<t>> : t \in VmTableProofs},
        alpha \in Denominators, num_lks \in 1..MaxVmLks :
       w_in = [kind |-> "vm_proof", opcode_proofs |-> ops,
               table_proofs |-> tabs, dummy_table_item |-> alpha,
               num_lks |-> num_lks]
  /\ w_out = [prod_r |-> 1, prod_w |-> 1, logup_sum |-> 0,
              dummy_table_item_multiplicity |-> 0,
              opcodes |-> 0, tables |-> 0, result |-> "none"]

NextVm ==
  \/ VmStart
  \/ VmOpcodeProof
  \/ VmTableProof
  \/ VmDecide

SpecVm == InitVm /\ [][NextVm]_vars

(***************************************************************************)
(* MemWordChange<N_ZEROS> of the store instructions: the witness values    *)
(* assign_instance writes and the equalities construct_circuit requires.   *)
(* The values are base field elements far below the field's size; they are *)
(* integers here, negative for a negative difference.  A byte has the      *)
(* values 0..MaxByte (0..255 in the code), a u16 limb is two bytes and a   *)
(* word two limbs.                                                         *)
(***************************************************************************)
MaxByte == 1

\* 1 << 8 and 1 << 16 of the code
ByteBase == MaxByte + 1
LimbBase == ByteBase * ByteBase

\* Value::as_u16_limbs, low limb first
as_u16_limbs(word) == <<word % LimbBase, word \div LimbBase>>

\* u16::to_le_bytes
to_le_bytes(limb) == <<limb % ByteBase, limb \div ByteBase>>

\* the closure `select` of construct_circuit
select(bit, when_true, when_false) == bit * when_true + (1 - bit) * when_false

\* the columns assign_instance sets for a step with this memory-op shift,
\* previous word and rs2 word
assign_instance(n_zeros, shift, prev_value, rs2_value) ==
  LET low_bits == <<shift % 2, (shift \div 2) % 2>>
      prev_limb == as_u16_limbs(prev_value)[low_bits[2] + 1]
      rs2_limb == as_u16_limbs(rs2_value)[low_bits[2] + 1]
  IN IF n_zeros = 0
     THEN LET change ==
                IF low_bits[1] = 0
                THEN to_le_bytes(rs2_limb)[1] - to_le_bytes(prev_limb)[1]
                ELSE to_le_bytes(rs2_limb)[2] * ByteBase
                       - to_le_bytes(rs2_limb)[2] * ByteBase
              final_change ==
                IF low_bits[2] = 0 THEN change ELSE LimbBase * change
          IN [prev_limb_bytes |-> to_le_bytes(prev_limb),
              rs2_limb_bytes |-> to_le_bytes(rs2_limb),
              expected_changes |-> <<change, final_change>>]
     ELSE LET final_change ==
                IF low_bits[2] = 0
                THEN rs2_limb - prev_limb
                ELSE rs2_limb * LimbBase - prev_limb * LimbBase
          IN [prev_limb_bytes |-> <<>>,
              rs2_limb_bytes |-> <<>>,
              expected_changes |-> <<final_change>>]

\* the require_equal constraints of construct_circuit that the instance
\* does not satisfy, by their annotation
construct_circuit(n_zeros, shift, prev_value, rs2_value, instance) ==
  LET low_bits == <<shift % 2, (shift \div 2) % 2>>
      prev_limbs == as_u16_limbs(prev_value)
      rs2_limbs == as_u16_limbs(rs2_value)
      prev_limb_bytes == instance.prev_limb_bytes
      rs2_limb_bytes == instance.rs2_limb_bytes
      expected_changes == instance.expected_changes
  IN IF n_zeros = 0
     THEN LET prev_target_limb ==
                select(low_bits[2], prev_limbs[2], prev_limbs[1])
              rs2_target_limb ==
                select(low_bits[2], rs2_limbs[2], rs2_limbs[1])
          IN {c \in {"decompose prev_limb"} :
                prev_target_limb
                  # prev_limb_bytes[1] + ByteBase * prev_limb_bytes[2]}
             \cup {c \in {"decompose rs2_limb"} :
                rs2_target_limb
                  # rs2_limb_bytes[1] + ByteBase * rs2_limb_bytes[2]}
             \cup {c \in {"expected_limb_change"} :
                select(low_bits[1],
                       ByteBase * (rs2_limb_bytes[2] - prev_limb_bytes[2]),
                       1 * (rs2_limb_bytes[1] - prev_limb_bytes[1]))
                  # expected_changes[1]}
             \cup {c \in {"expected_change"} :
                select(low_bits[2],
                       LimbBase * expected_changes[1],
                       1 * expected_changes[1])
                  # expected_changes[2]}
     ELSE {c \in {"expected_change"} :
             select(low_bits[2],
                    LimbBase * (rs2_limbs[2] - prev_limbs[2]),
                    1 * (rs2_limbs[2] - prev_limbs[1]))
               # expected_changes[1]}

\* assign_instance of MemWordChange<n_zeros> for one step
MemWordChangeAssign ==
  /\ w_pc = "assign_instance"
  /\ w_out' = assign_instance(w_in.n_zeros, w_in.shift, w_in.prev_value,
                              w_in.rs2_value)
  /\ w_pc' = "assigned"
  /\ UNCHANGED <<pc, input_vars, prover_vars, handoff_vars, verifier_vars,
                 op_result, w_in>>

\* a store byte (n_zeros = 0) or store half (n_zeros = 1) step: the shift
\* of the memory op, the word in memory before it and the word in rs2
InitGadget ==
  /\ pc = "idle"
  /\ prod_specs = <<>>
  /\ logup_specs = <<>>
  /\ forged = FALSE
  /\ num_fanin = 2
  /\ p_tr = NewTranscript(0)
  /\ v_tr = NewTranscript(0)
  /\ IdleProver
  /\ IdleVerifier
  /\ w_pc = "assign_instance"
  /\ \E n_zeros \in {0, 1}, shift \in 0..3,
        prev_value \in 0..(LimbBase * LimbBase - 1),
        rs2_value \in 0..(LimbBase * LimbBase - 1) :
       w_in = [kind |-> "mem_word_change", n_zeros |-> n_zeros,
               shift |-> shift, prev_value |-> prev_value,
               rs2_value |-> rs2_value]
  /\ w_out = <<>>

SpecGadget == InitGadget /\ [][MemWordChangeAssign]_vars

(***************************************************************************)
(* Properties.                                                             *)
(***************************************************************************)
\* the proof reached the verifier as the prover returned it
Honest == tampered.kind = "none"

\* verify has returned (Ok or Err), or stopped in the sum-check verifier
Verified == pc \in {"verify_done", "verifier_sumcheck_panic"}

\* C1 (as stated): for every set of specs, whatever the mix of layer
\* counts, verify accepts the proof create_proof returned and returns the
\* prover's final point.
C1_RoundTripAnyMix ==
  (Verified /\ Honest) => (v_result = "ok" /\ v_ret[1] = p_rt)

\* C1 (what holds): when every spec has at least two layers, or every spec
\* has exactly one, verify accepts the proof create_proof returned and
\* returns the prover's final point.
C1_RoundTripNoSingleLayerMix ==
  (/\ Verified
   /\ Honest
   /\ \/ \A i \in 1..Len(LayerCounts) : LayerCounts[i] >= 2
      \/ \A i \in 1..Len(LayerCounts) : LayerCounts[i] = 1)
    => (v_result = "ok" /\ v_ret[1] = p_rt)

\* an honest proof over specs of different heights (2 and 3 layers) has
\* been accepted
C1_Witness ==
  /\ Verified
  /\ Honest
  /\ v_result = "ok"
  /\ \E i, j \in 1..Len(LayerCounts) : LayerCounts[i] = 2 /\ LayerCounts[j] = 3

\* the transcript operations of one sum-check over num_variables variables
\* with messages of 4 evaluations: the header, then per variable the message
\* and the challenge
RECURSIVE SumcheckOps(_)
SumcheckOps(num_variables) ==
  IF num_variables = 0 THEN <<"append", "append">>
  ELSE SumcheckOps(num_variables - 1)
         \o <<"append", "append", "append", "append", "Internal round">>

\* the transcript operations of the tower protocol up to the end of round n
RECURSIVE TowerOps(_)
TowerOps(n) ==
  IF n = 0 THEN <<"alpha", "product_sum">>
  ELSE TowerOps(n - 1) \o SumcheckOps(n) \o <<"merge", "alpha">>

\* C2: create_proof and verify perform the same sequence of transcript
\* operations - one alpha batch, the product_sum challenge, then per round the
\* sum-check messages, the merge challenge and an alpha batch (also after the
\* last round) - a sequence fixed by the maximum round count; after an
\* accepted proof both hold the same transcript state.
C2_SameTranscriptOps ==
  /\ pc = "prover_round" => p_tr.ops = TowerOps(p_round - 1)
  /\ pc \in {"proved", "verify", "verify_round", "verify_done"}
       => p_tr.ops = TowerOps(max_round_index)
  /\ pc = "verify_round" => v_tr.ops = TowerOps(v_round)
  /\ (Verified /\ v_result = "ok")
       => /\ v_tr = p_tr
          /\ v_tr.ops = TowerOps(verifier_rounds)

\* an honest proof of two rounds has been accepted
C2_Witness ==
  /\ Verified
  /\ Honest
  /\ v_result = "ok"
  /\ Len(v_log) = 2
  /\ Len(p_log) = 2

\* the proof reached the verifier with one evaluation scalar changed
Tampered == tampered.kind \in {"prod", "logup"}

\* every spec has at least two layers: create_proof's proof is accepted
AllDeep == \A j \in 1..Len(LayerCounts) : LayerCounts[j] >= 2

\* the rounds of v_log that ran to their end (the evaluation matched and the
\* merge challenge was drawn)
PassedRounds == {k \in 1..Len(v_log) : v_log[k].rt_prime # <<>>}

\* C3: at the first round whose recomputed expected evaluation differs from
\* the sum-check subclaim's, verify returns the error at once: the round's
\* merge challenge is not drawn, no later round runs, nothing is returned;
\* every round before it matched.
C3_MismatchStopsVerify ==
  /\ v_result = "mismatch" =>
       /\ pc = "verify_done"
       /\ v_ret = <<>>
       /\ Len(v_log) = v_round + 1
       /\ SumSeq(v_log[Len(v_log)].terms) # v_log[Len(v_log)].subclaim
       /\ v_tr.ops = TowerOps(v_round) \o SumcheckOps(v_round + 1)
       /\ op_result \in {"none", "tower_failed"}
  /\ \A k \in 1..Len(v_log) :
       (k < Len(v_log) \/ v_result # "mismatch")
         => /\ SumSeq(v_log[k].terms) = v_log[k].subclaim
            /\ k \in PassedRounds

\* verify has failed with the mismatch in its second round, after a round
\* that matched, and verify_opcode_proof has passed the error on
C3_Witness ==
  /\ v_result = "mismatch"
  /\ v_round = 1
  /\ Len(v_log) = 2
  /\ op_result = "tower_failed"

\* the change of the tampered spec's summand of expected_evaluation in the
\* round e = v_log[tampered.round]: eq times the alpha-weighted difference
\* between the spec's combination over the changed list and over the list the
\* prover pushed
TamperChange(e) ==
  LET i == tampered.spec
      r == tampered.round
      eq == eq_eval(e.out_rt, e.rt)
  IN IF tampered.kind = "prod"
     THEN Fmul(Fmul(eq, e.alpha_pows[i]),
               Fsub(prod_combination(tower_proofs.prod_specs_eval[i][r]),
                    prod_combination(proofs.prod_specs_eval[i][r])))
     ELSE LET an == e.alpha_pows[num_prod_spec + 2 * (i - 1) + 1]
              ad == e.alpha_pows[num_prod_spec + 2 * (i - 1) + 2]
          IN Fmul(eq,
                  Fsub(logup_combination(tower_proofs.logup_specs_eval[i][r],
                                         an, ad),
                       logup_combination(proofs.logup_specs_eval[i][r],
                                         an, ad)))

\* the round's challenges are not degenerate: eq(out_rt, rt) and every power
\* of alpha are non-zero
GenericChallenges(e) ==
  /\ eq_eval(e.out_rt, e.rt) # 0
  /\ \A k \in 1..Len(e.alpha_pows) : e.alpha_pows[k] # 0

\* C4 (as stated, for rounds whose challenges are not degenerate): starting
\* from an accepted proof, changing any single scalar of any evaluation list
\* makes verify fail with the mismatch error.
C4_AnyTamperIsMismatch ==
  (/\ Verified
   /\ Tampered
   /\ AllDeep
   /\ Len(v_log) >= tampered.round
   /\ GenericChallenges(v_log[tampered.round]))
    => v_result = "mismatch"

\* C4 (what holds): starting from an accepted proof, a single changed scalar
\* in round r's evaluation list of a spec makes verify fail with the mismatch
\* error in round r exactly when it changes that round's recomputed expected
\* evaluation; a change that leaves it as it was is not detected there.
C4_TamperMismatchIffChanged ==
  (Tampered /\ AllDeep /\ Len(v_log) >= tampered.round)
    => ((v_result = "mismatch" /\ Len(v_log) = tampered.round)
          <=> TamperChange(v_log[tampered.round]) # 0)

\* a scalar of a second-round evaluation list was changed and verify failed
\* with the mismatch in that round
C4_Witness ==
  /\ Tampered
  /\ AllDeep
  /\ tampered.round = 2
  /\ v_result = "mismatch"
  /\ Len(v_log) = 2
  /\ TamperChange(v_log[2]) # 0

\* spec j of the batch (product specs first): its owner tag in p_log
Owner(j) ==
  IF j <= Len(prod_specs) THEN <<"prod", j>>
  ELSE <<"logup", j - Len(prod_specs)>>

\* the specs that added terms in round k of create_proof
Owners(k) == {p_log[k][n] : n \in 1..Len(p_log[k])}

\* the PointAndEval(s) verify holds for spec j
HeldFor(j) ==
  IF j <= num_prod_spec THEN <<prod_spec_input_layer_eval[j]>>
  ELSE <<logup_spec_p_input_layer_eval[j - num_prod_spec],
         logup_spec_q_input_layer_eval[j - num_prod_spec]>>

\* the PointAndEval(s) round k of verify computed for spec j
ComputedFor(j, k) ==
  IF j <= num_prod_spec
  THEN <<[point |-> v_log[k].rt_prime,
          eval |-> merged_eval(tower_proofs.prod_specs_eval[j][k],
                               v_log[k].coeffs)]>>
  ELSE LET evals == tower_proofs.logup_specs_eval[j - num_prod_spec][k]
       IN <<[point |-> v_log[k].rt_prime,
             eval |-> merged_eval(SubSeq(evals, 1, 2), v_log[k].coeffs)],
            [point |-> v_log[k].rt_prime,
             eval |-> merged_eval(SubSeq(evals, 3, 4), v_log[k].coeffs)]>>

\* Rounds are counted from 1 on both sides: spec j with L layers has the
\* evaluation lists of rounds 1 .. L - 1, round L - 1 being its own last.

\* C5 (as stated): in every round at or after a spec's own last round the
\* spec adds no term to the prover's sum-check and contributes zero to the
\* verifier's expected evaluation and to the next claim.
C5_NothingFromOwnLastRoundOn ==
  \A j \in 1..Len(LayerCounts) :
    /\ \A k \in 1..Len(p_log) :
         k >= LayerCounts[j] - 1 => Owner(j) \notin Owners(k)
    /\ \A k \in PassedRounds :
         k >= LayerCounts[j] - 1
           => (v_log[k].terms[j] = 0 /\ v_log[k].folds[j] = 0)

\* C5 (what holds): in its own last round a spec still adds its terms to the
\* prover's sum-check; in every round after it the spec adds no term and its
\* summand of the verifier's expected evaluation is zero; in every round at
\* or after it the spec's summand of the next claim is zero; and the
\* PointAndEval verify holds for it from then on, and finally returns, is the
\* one computed in its own last round (the default one for a spec of one
\* layer).
C5_ExhaustedSpecsFrozen ==
  \A j \in 1..Len(LayerCounts) :
    /\ \A k \in 1..Len(p_log) :
         /\ k > LayerCounts[j] - 1 => Owner(j) \notin Owners(k)
         /\ k <= LayerCounts[j] - 1 => Owner(j) \in Owners(k)
    /\ \A k \in 1..Len(v_log) :
         k > LayerCounts[j] - 1 => v_log[k].terms[j] = 0
    /\ \A k \in PassedRounds :
         k >= LayerCounts[j] - 1 => v_log[k].folds[j] = 0
    /\ pc \in {"verify_round", "verify_done"}
         => IF LayerCounts[j] = 1
            THEN \A n \in 1..Len(HeldFor(j)) : HeldFor(j)[n] = PointAndEvalDefault
            ELSE (LayerCounts[j] - 1) \in PassedRounds
                   => HeldFor(j) = ComputedFor(j, LayerCounts[j] - 1)
    /\ v_result = "ok"
         => /\ v_ret[2] = prod_spec_input_layer_eval
            /\ v_ret[3] = logup_spec_p_input_layer_eval
            /\ v_ret[4] = logup_spec_q_input_layer_eval

\* an honest proof was accepted in which a spec of two layers sat out the
\* second round: non-zero summand in round 1, nothing in round 2
C5_Witness ==
  /\ Honest
  /\ v_result = "ok"
  /\ Len(v_log) = 2
  /\ \E j \in 1..Len(LayerCounts) :
       /\ LayerCounts[j] = 2
       /\ v_log[1].terms[j] # 0
       /\ Owner(j) \in Owners(1)
       /\ HeldFor(j)[1].point = v_log[1].rt_prime

\* C6 (as stated): for an honest accepted proof, every spec's returned
\* PointAndEval has as its point the last point the prover recorded for the
\* spec, the numerator and the denominator of a logup spec sharing it.
C6_ReturnedPointsAreLastRecorded ==
  (Verified /\ Honest /\ v_result = "ok")
    => /\ \A i \in 1..num_prod_spec :
            last_point(proofs.prod_specs_points[i])
              = [some |-> TRUE, point |-> v_ret[2][i].point]
       /\ \A i \in 1..num_logup_spec :
            /\ last_point(proofs.logup_specs_points[i])
                 = [some |-> TRUE, point |-> v_ret[3][i].point]
            /\ v_ret[3][i].point = v_ret[4][i].point

\* C6 (what holds): the same, for the specs of at least two layers.
C6_ReturnedPointsOfDeepSpecs ==
  (Verified /\ Honest /\ v_result = "ok")
    => /\ \A i \in 1..num_prod_spec :
            expected_rounds[i] >= 2
              => last_point(proofs.prod_specs_points[i])
                   = [some |-> TRUE, point |-> v_ret[2][i].point]
       /\ \A i \in 1..num_logup_spec :
            /\ expected_rounds[num_prod_spec + i] >= 2
                 => last_point(proofs.logup_specs_points[i])
                      = [some |-> TRUE, point |-> v_ret[3][i].point]
            /\ v_ret[3][i].point = v_ret[4][i].point

\* an honest proof over two product specs and a logup spec of different
\* heights was accepted, and the points returned differ between specs
C6_Witness ==
  /\ Verified
  /\ Honest
  /\ v_result = "ok"
  /\ num_prod_spec = 2
  /\ num_logup_spec = 1
  /\ v_ret[2][1].point # v_ret[3][1].point
  /\ Len(v_ret[3][1].point) >= 2

\* C7: after create_proof the proof holds max(layer count) - 1 sum-check
\* transcripts; spec i has (layer count of i) - 1 evaluation lists and as
\* many points; a product list has 2 scalars, a logup list 4.
C7_ProofShape ==
  pc \in {"proved", "verify", "verify_round", "verify_done"}
    => /\ Len(proofs.proofs) = MaxSeq(LayerCounts) - 1
       /\ \A i \in 1..Len(prod_specs) :
            /\ Len(proofs.prod_specs_eval[i]) = Len(prod_specs[i]) - 1
            /\ Len(proofs.prod_specs_points[i]) = Len(prod_specs[i]) - 1
            /\ \A r \in 1..Len(proofs.prod_specs_eval[i]) :
                 Len(proofs.prod_specs_eval[i][r]) = 2
       /\ \A i \in 1..Len(logup_specs) :
            /\ Len(proofs.logup_specs_eval[i]) = Len(logup_specs[i]) - 1
            /\ Len(proofs.logup_specs_points[i]) = Len(logup_specs[i]) - 1
            /\ \A r \in 1..Len(proofs.logup_specs_eval[i]) :
                 Len(proofs.logup_specs_eval[i][r]) = 4

\* create_proof has returned a proof over specs of 1, 3 and 2 layers
C7_Witness ==
  /\ pc = "proved"
  /\ Len(proofs.proofs) = 2
  /\ \E i \in 1..Len(prod_specs) : Len(proofs.prod_specs_eval[i]) = 0
  /\ \E i \in 1..Len(prod_specs) : Len(proofs.prod_specs_eval[i]) = 2
  /\ \E i \in 1..Len(logup_specs) : Len(proofs.logup_specs_eval[i]) = 1

\* C9: after the tower verification, verify_opcode_proof goes on to the main
\* selector sum-check only when the numerator PointAndEval returned for logup
\* spec 0 evaluates to exactly 1, and returns the lookup-table error, without
\* running it, whenever the evaluation is anything else.
C9_NumeratorMustBeOne ==
  (op_result \notin {"none", "tower_failed", "assert_failed"})
    => /\ v_result = "ok"
       /\ v_ret[3][1].eval = 1 => op_result = "main_sel_sumcheck"
       /\ v_ret[3][1].eval # 1 => op_result = "err_lookup_table_witness_not_one"

\* verify_opcode_proof has returned the lookup-table error on a numerator
\* evaluation that is neither 0 nor 1
C9_Witness ==
  /\ op_result = "err_lookup_table_witness_not_one"
  /\ v_ret[3][1].eval \notin {0, 1}

\* ceil(log2(num_instances)) + ceil(log2(leaf_width)) of the builder run
FormulaLayers == ceil_log2(w_in.num_instances) + ceil_log2(w_in.count)

\* the largest number of rounds a batch holding the spec can have
MaxBatchRounds == ceil_log2(MaxInst) + ceil_log2(MaxCount)

C10_ProductWitness ==
  (w_pc = "built" /\ w_in.kind = "prod")
    => LET nv == tower_num_vars(w_in.num_instances, w_in.count)
           leaf == w_out[Len(w_out)]
       IN /\ Len(w_out) = nv
          /\ \A k \in 1..nv :
               /\ Len(w_out[k]) = 2
               /\ \A f \in 1..2 : Len(w_out[k][f]) = Pow2(k - 1)
          /\ leaf = LastLayer(w_in.a, w_in.b, Pow2(nv - 1))
          /\ Fmul(w_out[1][1][1], w_out[1][2][1]) = ProdSeq(leaf[1] \o leaf[2])
          /\ leaf = <<<<1, 2>>, <<3, 4>>>>
               => /\ w_out[1] = <<<<3>>, <<8>>>>
                  /\ Fmul(w_out[1][1][1], w_out[1][2][1]) = 24
                  /\ Len(w_out) = 2
                  /\ prover_rounds_of(w_out, 1) = 1

\* the builder has run on the leaves [1,2] and [3,4]
C10_Witness ==
  /\ w_pc = "built"
  /\ w_in.kind = "prod"
  /\ w_out[Len(w_out)] = <<<<1, 2>>, <<3, 4>>>>
  /\ w_out[1] = <<<<3>>, <<8>>>>

\* the leaf layer the builder run started from (the last layer returned)
WitLeaf == w_out[Len(w_out)]

\* C11 (as stated): in the product tree each coarser layer's branch i is the
\* pointwise product of the two halves of the next finer layer's branch i:
\* coarse[i][j] = fine[i][j] * fine[i][j + len/2].
C11_BranchIsProductOfItsHalves ==
  (w_pc = "built" /\ w_in.kind = "prod")
    => \A k \in 1..(Len(w_out) - 1) :
         \A i \in 1..2 :
           LET h == Len(w_out[k][i])
           IN \A j \in 1..h :
                w_out[k][i][j]
                  = Fmul(w_out[k + 1][i][j], w_out[k + 1][i][j + h])

\* C11 (what holds): each coarser layer's branch i is the pointwise product
\* of the two branches of the next finer layer over their i-th halves:
\* coarse[i][j] = fine[0][i*h + j] * fine[1][i*h + j], h the coarser length.
C11_BranchIsProductAcrossBranches ==
  (w_pc = "built" /\ w_in.kind = "prod")
    => \A k \in 1..(Len(w_out) - 1) :
         \A i \in 1..2 :
           LET h == Len(w_out[k][i])
           IN \A j \in 1..h :
                w_out[k][i][j]
                  = Fmul(w_out[k + 1][1][(i - 1) * h + j],
                         w_out[k + 1][2][(i - 1) * h + j])

\* a product tree of three layers was built in which the two readings of a
\* coarser entry differ
C11_Witness ==
  /\ w_pc = "built"
  /\ w_in.kind = "prod"
  /\ Len(w_out) = 3
  /\ w_out[2][1][1] = Fmul(w_out[3][1][1], w_out[3][2][1])
  /\ w_out[2][1][1] # Fmul(w_out[3][1][1], w_out[3][1][3])

\* C12: infer_tower_logup_witness returns log2(leaf length) + 1 layers, root
\* first, each [p1, p2, q1, q2]; in a non-leaf layer of vector length h,
\* p_index[j] = p1'[index*h + j] * q2'[index*h + j]
\*              + p2'[index*h + j] * q1'[index*h + j] and
\* q_index[j] = q1'[index*h + j] * q2'[index*h + j], the primed vectors being
\* those of the next finer layer.
C12_LogupLayers ==
  (w_pc = "built" /\ w_in.kind = "logup")
    => /\ Len(w_out) = ceil_log2(Len(WitLeaf[3])) + 1
       /\ \A k \in 1..Len(w_out) :
            /\ Len(w_out[k]) = 4
            /\ \A f \in 1..4 : Len(w_out[k][f]) = Pow2(k - 1)
       /\ \A k \in 1..(Len(w_out) - 1) :
            LET h == Pow2(k - 1)
                fine == w_out[k + 1]
            IN \A index \in 0..1 :
                 \A j \in 1..h :
                   LET t == index * h + j
                   IN /\ w_out[k][1 + index][j]
                           = Fadd(Fmul(fine[1][t], fine[4][t]),
                                  Fmul(fine[2][t], fine[3][t]))
                      /\ w_out[k][3 + index][j] = Fmul(fine[3][t], fine[4][t])

\* a logup tree of three layers was built
C12_Witness ==
  /\ w_pc = "built"
  /\ w_in.kind = "logup"
  /\ Len(w_out) = 3
  /\ w_out[1][1][1] # w_out[1][2][1]

\* the leaf denominators have no zero entry
NoZeroDenominator ==
  \A f \in 3..4 : \A t \in 1..Len(WitLeaf[f]) : WitLeaf[f][t] # 0

\* the sum over every leaf position of 1/q1[t] + 1/q2[t]
LeafFractionSum ==
  SumSeq(collect([t \in 1..Len(WitLeaf[3]) |->
            Fadd(Finv(WitLeaf[3][t]), Finv(WitLeaf[4][t]))]))

\* C13: for leaf denominators without a zero entry, the root [p1, p2, q1,
\* q2] of infer_tower_logup_witness satisfies p1/q1 + p2/q2 = the sum over
\* the leaf positions t of 1/q1[t] + 1/q2[t].
C13_RootIsFractionSum ==
  (w_pc = "built" /\ w_in.kind = "logup" /\ NoZeroDenominator)
    => LET root == w_out[1]
       IN /\ root[3][1] # 0
          /\ root[4][1] # 0
          /\ Fadd(Fmul(root[1][1], Finv(root[3][1])),
                  Fmul(root[2][1], Finv(root[4][1])))
               = LeafFractionSum

\* a logup tree of three layers over distinct non-zero denominators was
\* built
C13_Witness ==
  /\ w_pc = "built"
  /\ w_in.kind = "logup"
  /\ NoZeroDenominator
  /\ Len(w_out) = 3
  /\ WitLeaf[3][1] # WitLeaf[3][2]
  /\ LeafFractionSum # 0

\* the number of vectors of a layer: 2 in a product tree, 4 in a logup tree
WitWidth == IF w_in.kind = "prod" THEN 2 ELSE 4

\* C14: in every tree the builder returns, layer i (root = layer 0) holds 2
\* vectors (product) or 4 (logup), all of length 2^i; and the sanity check of
\* TowerProver::create_proof accepts exactly this shape for the layer of
\* round i: it passes on the layer, and fails on it with a vector dropped or
\* for another round's length.
C14_LayerShapes ==
  w_pc = "built"
    => \A k \in 1..Len(w_out) :
         /\ Len(w_out[k]) = WitWidth
         /\ \A f \in 1..Len(w_out[k]) : Len(w_out[k][f]) = Pow2(k - 1)
         /\ layer_shape_ok(w_out[k], WitWidth, k - 1)
         /\ ~layer_shape_ok(Tail(w_out[k]), WitWidth, k - 1)
         /\ ~layer_shape_ok(w_out[k], WitWidth, k)

\* a product tree and a logup tree of four layers
C14_Witness ==
  /\ w_pc = "built"
  /\ Len(w_out) = 4
  /\ Len(w_out[4][1]) = 8

\* C15: the leaf layer of infer_tower_logup_witness has p1 and p2 all ones,
\* of the denominators' length, and q1, q2 the two input vectors unchanged.
C15_LeafLayer ==
  (w_pc = "built" /\ w_in.kind = "logup")
    => LET q_mles == LastLayer(w_in.a + 1, w_in.b,
                               Pow2(tower_num_vars(w_in.num_instances,
                                                   w_in.count) - 1))
       IN /\ WitLeaf[3] = q_mles[1]
          /\ WitLeaf[4] = q_mles[2]
          /\ \A f \in 1..2 :
               /\ Len(WitLeaf[f]) = Len(q_mles[1])
               /\ \A t \in 1..Len(WitLeaf[f]) : WitLeaf[f][t] = 1

\* a logup tree over leaf denominators of length 4 was built
C15_Witness ==
  /\ w_pc = "built"
  /\ w_in.kind = "logup"
  /\ Len(WitLeaf[1]) = 4
  /\ WitLeaf[3][2] # 1

\* the per-instance size of the run, and its number of instances
PerInstanceSize == Pow2(w_in.log2_per_instance_size)

\* what C16 says the call returns: num_limbs vectors of length 2^(a+L)/k,
\* limb f holding at position c * 2^L + i record i's value at instance
\* f * (2^a / k) + c, and the default where i >= n
InterleavedAsStated ==
  LET k == w_in.num_limbs
      per_limb == w_in.num_instances \div k
  IN /\ Len(w_out) = k
     /\ \A f \in 0..(k - 1) :
          /\ Len(w_out[f + 1]) = (w_in.num_instances * PerInstanceSize) \div k
          /\ \A c \in 0..(per_limb - 1) :
               \A i \in 0..(PerInstanceSize - 1) :
                 w_out[f + 1][c * PerInstanceSize + i + 1]
                   = IF i < w_in.count
                     THEN RecordMles[i + 1][f * per_limb + c + 1]
                     ELSE w_in.b

\* a call within what C16 describes: n <= 2^L records, k a power of two that
\* divides the number of instances
InterleaveCallAsDescribed ==
  /\ w_in.kind = "interleave"
  /\ w_pc # "input"
  /\ w_in.count <= PerInstanceSize
  /\ is_power_of_two(w_in.num_limbs)
  /\ w_in.num_limbs <= w_in.num_instances

\* C16 (as stated): given n vectors over 2^a instances, per-instance size
\* 2^L (n <= 2^L) and k limbs, interleaving_mles_to_mles returns k vectors of
\* length 2^(a+L)/k, limb f holding at position c * 2^L + i record i's value
\* at instance f * (2^a / k) + c for i < n and the default for i >= n.
C16_InterleaveForEverySize ==
  InterleaveCallAsDescribed => (w_pc = "built" /\ InterleavedAsStated)

\* C16 (what holds): the same when L is itself a power of two (1, 2, 4, ..);
\* for any other L (0, 3, ..) the function's first assertion fails and
\* nothing is returned.
C16_InterleaveWhenLogSizeIsPowerOfTwo ==
  InterleaveCallAsDescribed
    => IF is_power_of_two(w_in.log2_per_instance_size)
       THEN w_pc = "built" /\ InterleavedAsStated
       ELSE w_pc = "panic"

\* three records over two instances were interleaved into two limbs of
\* per-instance size 4, the fourth lane holding the default
C16_Witness ==
  /\ w_in.kind = "interleave"
  /\ w_pc = "built"
  /\ w_in.count = 3
  /\ w_in.log2_per_instance_size = 2
  /\ w_in.num_limbs = 2
  /\ w_in.b = 0
  /\ w_out = <<<<1, 3, 5, 0>>, <<2, 4, 6, 0>>>>

\* the call of the doc comment: [[1,2],[3,4],[5,6],[7,8]], num_limbs = 2,
\* log2_per_instance_size = 3, padding value 0
DocExampleCall ==
  /\ w_in.kind = "interleave"
  /\ w_pc # "input"
  /\ RecordMles = <<<<1, 2>>, <<3, 4>>, <<5, 6>>, <<7, 8>>>>
  /\ w_in.num_limbs = 2
  /\ w_in.log2_per_instance_size = 3
  /\ w_in.b = 0

\* C17 (as stated): on the doc comment's input the function returns
\* [[1,3,5,7,0,0,0,0],[2,4,6,8,0,0,0,0]].
C17_DocExampleOutput ==
  DocExampleCall
    => /\ w_pc = "built"
       /\ w_out = <<<<1, 3, 5, 7, 0, 0, 0, 0>>, <<2, 4, 6, 8, 0, 0, 0, 0>>>>

\* C17 (what the code does): on the doc comment's input the assertion
\* "log2_per_instance_size.is_power_of_two()" fails, 3 being no power of
\* two; with log2_per_instance_size = 2 the same records give
\* [[1,3,5,7],[2,4,6,8]].
C17_DocExampleAsserts ==
  /\ DocExampleCall => w_pc = "panic"
  /\ (/\ w_in.kind = "interleave"
      /\ w_pc # "input"
      /\ RecordMles = <<<<1, 2>>, <<3, 4>>, <<5, 6>>, <<7, 8>>>>
      /\ w_in.num_limbs = 2
      /\ w_in.log2_per_instance_size = 2)
       => (w_pc = "built" /\ w_out = <<<<1, 3, 5, 7>>, <<2, 4, 6, 8>>>>)

\* the doc comment's call has been made
C17_Witness == DocExampleCall /\ w_pc = "panic"

\* a run of create_proof's leaf construction on a record count that is no
\* power of two
PaddedLeafRun ==
  /\ w_in.kind \in {"leaf_prod", "leaf_logup"}
  /\ ~is_power_of_two(w_in.count)

\* the positions of a leaf vector that belong to no record
PaddedLanes(vec) ==
  {pos \in 1..Len(vec) : (pos - 1) % PerInstanceSize >= w_in.count}

\* the number of padded lanes of the whole leaf layer
NumPaddedLanes == (PerInstanceSize - w_in.count) * w_in.num_instances

\* the product of all values of the records
RecordsProduct ==
  ProdSeq(collect([i \in 1..w_in.count |-> ProdSeq(RecordMles[i])]))

\* the sum of 1 / value over all values of the records
RecordsFractionSum ==
  SumSeq(collect([i \in 1..w_in.count |->
            SumSeq(collect([c \in 1..Len(RecordMles[i]) |->
                      Finv(RecordMles[i][c])]))]))

\* p1/q1 + p2/q2 of a logup tower's root layer
RootFractionSum ==
  Fadd(Fmul(w_out[1][1][1], Finv(w_out[1][3][1])),
       Fmul(w_out[1][2][1], Finv(w_out[1][4][1])))

\* the product tower's padded lanes hold 1 and its root product is that of
\* the records alone
ProductPaddingIsIdentity ==
  /\ \A f \in 1..2 : \A pos \in PaddedLanes(WitLeaf[f]) : WitLeaf[f][pos] = 1
  /\ Fmul(w_out[1][1][1], w_out[1][2][1]) = RecordsProduct

ProverRan == pc \in {"prover_round", "proved", "prover_panic"}

\* verify has gone past its assertions, or failed in them
VerifierRan == pc \in {"verify_round", "verify_done", "verifier_panic"}

\* C19: contract violations are assertion failures that happen before
\* anything is drawn from the transcript.  create_proof aborts on a fan-in
\* other than 2, and so does verify; verify also aborts when the number of
\* initial evaluation lists differs from the proof's spec counts, when a
\* product list has not 2 entries or a logup list not 4, and when
\* expected_rounds has not one entry per spec.
C19_ContractViolationsAbortBeforeDrawing ==
  /\ (ProverRan /\ num_fanin # 2)
       => (pc = "prover_panic" /\ p_tr.ops = <<>> /\ IdleProver)
  /\ (VerifierRan /\ tampered.kind \in ContractViolations)
       => ~verify_sanity_check(num_fanin, prod_out_evals, logup_out_evals,
                               tower_proofs, expected_rounds)
  /\ (VerifierRan /\ ~verify_sanity_check(num_fanin, prod_out_evals,
                                          logup_out_evals, tower_proofs,
                                          expected_rounds))
       => /\ pc = "verifier_panic"
          /\ v_tr.ops = <<>>
          /\ v_alpha = <<>>
          /\ v_log = <<>>
          /\ v_result = "none"
          /\ v_ret = <<>>
  /\ pc = "verifier_panic" => tampered.kind \in ContractViolations

\* verify was called with an expected round count too few, on a proof of
\* two specs, and has stopped in its assertions
C19_Witness ==
  /\ pc = "verifier_panic"
  /\ tampered.kind = "rounds_count"
  /\ num_fanin = 2
  /\ Len(expected_rounds) = 1
  /\ num_prod_spec + num_logup_spec = 2
  /\ v_tr.ops = <<>>

\* the positions of a transcript's alpha draws
AlphaDraws(tr) == {n \in 1..Len(tr.ops) : tr.ops[n] = "alpha"}

\* the position of a transcript's k-th alpha draw
NthAlphaDraw(tr, k) ==
  CHOOSE n \in AlphaDraws(tr) :
    Cardinality({m \in AlphaDraws(tr) : m <= n}) = k

\* the batch of the k-th alpha draw: the powers of the challenge drawn
BatchOfDraw(tr, k, size) == Powers(tr.vals[NthAlphaDraw(tr, k)], 1, size)

\* the k-th alpha draw follows at once the draw of the r_merge that ends the
\* point rt_prime
DrawnAfterMerge(tr, k, rt_prime) ==
  LET n == NthAlphaDraw(tr, k)
  IN /\ n >= 2
     /\ tr.ops[n - 1] = "merge"
     /\ tr.vals[n - 1] = rt_prime[Len(rt_prime)]

ProverBatchSize == Len(prod_specs) + 2 * Len(logup_specs)

VerifierBatchSize == num_prod_spec + 2 * num_logup_spec

\* the prover's side of C20 in a state: as many draws as rounds begun, the
\* batch held is that of the latest draw, made after the last r_merge
ProverBatchIsLatestDraw ==
  p_round >= 1
    => /\ Cardinality(AlphaDraws(p_tr)) = p_round
       /\ Len(p_alpha) = ProverBatchSize
       /\ p_alpha = BatchOfDraw(p_tr, p_round, ProverBatchSize)
       /\ p_round >= 2
            => /\ NthAlphaDraw(p_tr, p_round) = Len(p_tr.ops)
               /\ DrawnAfterMerge(p_tr, p_round, p_rt)

\* a prover round's sum-check messages are those of the terms weighted by
\* the batch of the round's own draw
ProverRoundUsesItsDraw ==
  (pc = "prover_round" /\ p_round' = p_round + 1)
    => LET polys == round_polys(p_round, p_rt,
                                BatchOfDraw(p_tr, p_round, ProverBatchSize))
           max_degree ==
             MaxSeq(collect([t \in 1..Len(polys.terms) |->
                               Len(polys.terms[t].idx)]))
           sc == prove_batch_polys(1, <<1>>, Len(p_rt), max_degree,
                                   polys.mles, polys.terms, p_tr)
       IN /\ proofs'.proofs = Append(proofs.proofs, sc.proofs)
          /\ Cardinality(AlphaDraws(p_tr')) = p_round + 1

\* the next-claim summands of verifier round k, weighted by a batch
FoldsWith(k, batch) ==
  collect([j \in 1..(num_prod_spec + num_logup_spec) |->
     IF /\ verifier_spec_active(k - 1, expected_rounds[j])
        /\ verifier_folds_next(k, expected_rounds[j])
     THEN IF j <= num_prod_spec
          THEN Fmul(batch[j], ComputedFor(j, k)[1].eval)
          ELSE LET i == j - num_prod_spec
               IN Fadd(Fmul(batch[num_prod_spec + 2 * (i - 1) + 1],
                            ComputedFor(j, k)[1].eval),
                       Fmul(batch[num_prod_spec + 2 * (i - 1) + 2],
                            ComputedFor(j, k)[2].eval))
     ELSE 0])

\* the expected-evaluation summands of verifier round k, weighted by a batch
TermsWith(k, batch) ==
  collect([i \in 1..num_prod_spec |->
     prod_expected_term(i, k - 1, v_log[k].out_rt, v_log[k].rt, batch)])
    \o collect([i \in 1..num_logup_spec |->
          logup_expected_term(i, k - 1, v_log[k].out_rt, v_log[k].rt, batch)])

\* the verifier's side of C20 in a state
VerifierBatchesAreTheirDraws ==
  v_alpha # <<>>
    => /\ Cardinality(AlphaDraws(v_tr)) = Cardinality(PassedRounds) + 1
       /\ Len(v_alpha) = VerifierBatchSize
       /\ v_alpha = BatchOfDraw(v_tr, Cardinality(PassedRounds) + 1,
                                VerifierBatchSize)
       /\ \A k \in 1..Len(v_log) :
            /\ v_log[k].alpha_pows = BatchOfDraw(v_tr, k, VerifierBatchSize)
            /\ v_log[k].terms
                 = TermsWith(k, BatchOfDraw(v_tr, k, VerifierBatchSize))
            /\ k \in PassedRounds
                 => /\ DrawnAfterMerge(v_tr, k + 1, v_log[k].rt_prime)
                    /\ v_log[k].folds
                         = FoldsWith(k, BatchOfDraw(v_tr, k + 1,
                                                    VerifierBatchSize))

\* C20: each alpha batch holds (number of product specs + 2 x number of
\* logup specs) scalars; the batch used for round r+1 - to fold round r's
\* merged evaluations into the next claim and to weight round r+1's terms
\* and expected evaluation - is the one drawn after round r's r_merge, and
\* every round has a draw of its own, in the prover and in the verifier
\* alike.
C20_AlphaBatchPerRound ==
  /\ [](ProverBatchIsLatestDraw /\ VerifierBatchesAreTheirDraws)
  /\ [][ProverRoundUsesItsDraw]_vars

\* an honest run of two verifier rounds over a product and a logup spec
\* has ended: three draws, the last batch differing from the one before it
C20_Witness ==
  /\ Verified
  /\ Honest
  /\ v_result = "ok"
  /\ num_prod_spec = 1
  /\ num_logup_spec = 1
  /\ Len(v_log) = 2
  /\ Cardinality(AlphaDraws(v_tr)) = 3
  /\ Cardinality(AlphaDraws(p_tr)) = 3
  /\ v_log[2].alpha_pows # v_log[1].alpha_pows
  /\ v_log[1].folds \notin {<<0, 0>>, FoldsWith(1, v_log[1].alpha_pows)}

\* the sum-check verifier rejects the sub-proof of the round verify is about
\* to run
SumcheckRejectsRound ==
  /\ pc = "verify_round"
  /\ v_round < verifier_rounds
  /\ round_indices_ok(v_round)
  /\ ~sumcheck_verify(v_pe.eval, tower_proofs.proofs[v_round + 1], 2 + 1,
                      (v_round + 1) * 1, v_tr).ok

\* C21 (as stated): when the generic sum-check verifier rejects a round's
\* sub-proof, verify returns that rejection to its caller as an error value.
C21_SumcheckRejectionIsReturned ==
  [][SumcheckRejectsRound
       => (pc' = "verify_done" /\ v_result' \notin {"none", "ok"})]_vars

\* C21 (what the code does): when the generic sum-check verifier rejects a
\* round's sub-proof, verify does not return: there is neither Ok nor an
\* error value, and verify_opcode_proof does not go on.  The one error value
\* verify ever returns is the tower evaluation mismatch.
C21_SumcheckRejectionDoesNotReturn ==
  /\ [][SumcheckRejectsRound
          => /\ pc' = "verifier_sumcheck_panic"
             /\ v_result' = "none"
             /\ v_ret' = <<>>
             /\ op_result' = "none"]_vars
  /\ [](pc = "verifier_sumcheck_panic"
          => (v_result = "none" /\ v_ret = <<>> /\ op_result = "none"))
  /\ [](v_result \in {"none", "ok", "mismatch"})

\* the sum-check verifier has rejected the first round of an honest proof
\* that batches a spec of one layer with a deeper one
C21_Witness ==
  /\ pc = "verifier_sumcheck_panic"
  /\ Honest
  /\ v_round = 0
  /\ \E j \in 1..Len(LayerCounts) : LayerCounts[j] = 1
  /\ \E j \in 1..Len(LayerCounts) : LayerCounts[j] >= 2

\* verify has ended, one way or another
VerifyEnded ==
  pc \in {"verify_done", "verifier_panic", "verifier_sumcheck_panic",
          "verifier_index_panic"}

\* the arguments verify was called with pass its up-front assertions
SanityPassed ==
  verify_sanity_check(num_fanin, prod_out_evals, logup_out_evals,
                      tower_proofs, expected_rounds)

\* the sum-check verifier rejects the sub-proof of round v_round, read on
\* the transcript as it stands
SumcheckRejectsHere ==
  ~sumcheck_verify(v_pe.eval, tower_proofs.proofs[v_round + 1], 2 + 1,
                   (v_round + 1) * 1, v_tr).ok

\* C22 (as stated): for every TowerProofs value that passes verify's
\* up-front assertions - proofs whose per-round transcript list or per-spec
\* evaluation lists are shorter than the expected round counts require
\* included - verify ends by returning Ok or an error value, and in no other
\* way.
C22_VerifyAlwaysReturns ==
  (VerifyEnded /\ SanityPassed)
    => (pc = "verify_done" /\ v_result \in {"ok", "mismatch"})

\* C22 (what the code does): a call that passes the up-front assertions
\* returns Ok or the mismatch error, or it stops without returning in one of
\* two places: indexing tower_proofs.proofs, a spec's evaluation lists or a
\* logup list's four scalars beyond their end, and the sum-check verifier's
\* rejection.  A proof cut short always ends in one of these two, never in
\* Ok.
C22_VerifyReturnsOrStops ==
  /\ (VerifyEnded /\ SanityPassed)
       => \/ pc = "verify_done" /\ v_result \in {"ok", "mismatch"}
          \/ /\ pc = "verifier_index_panic"
             /\ ~round_indices_ok(v_round)
             /\ tampered.kind \in Truncations
             /\ v_result = "none" /\ v_ret = <<>>
          \/ /\ pc = "verifier_sumcheck_panic"
             /\ round_indices_ok(v_round)
             /\ SumcheckRejectsHere
             /\ v_result = "none" /\ v_ret = <<>>
  /\ (VerifyEnded /\ tampered.kind \in Truncations)
       => /\ SanityPassed
          /\ pc \in {"verifier_index_panic", "verifier_sumcheck_panic"}
               \/ (pc = "verify_done" /\ v_result = "mismatch")

\* verify, handed a proof without its second round's sum-check messages,
\* has passed its assertions and the first round and stopped in the second
C22_Witness ==
  /\ pc = "verifier_index_panic"
  /\ tampered.kind = "proofs_short"
  /\ SanityPassed
  /\ v_round = 1
  /\ Len(v_log) = 1
  /\ Len(tower_proofs.proofs) = 1

\* a whole run of create_proof on one thread, on the specs of the state and
\* a transcript
create_proof_on_one_thread(tr) ==
  IF num_fanin # 2 \/ Len(prod_specs) = 0
  THEN [ok |-> FALSE, rt |-> <<>>, proofs |-> TowerProofs_new(0, 0), tr |-> tr]
  ELSE LET fold(a, d) ==
             create_proof_fold(1, <<d.c>>, a.pows,
                               TowerProofs_new(Len(prod_specs),
                                               Len(logup_specs)), d.tr)
           start(a) == fold(a, get_and_append_challenge(a.tr, "product_sum"))
       IN start(get_challenge_pows(Len(prod_specs) + Len(logup_specs) * 2,
                                   v_tr))

SameParallelLoop(t1, t2) == t1.chain = t2.chain /\ t1.step = t2.step

\* the outer tasks of interleaving_mles_to_mles's par_iter over the limbs
DifferentOuterTasks(t1, t2) == t1.chain # t2.chain

\* what the function whose loop this is computes from the arguments
ParSequentialResult ==
  CASE w_in.kind = "par_interleave" ->
         interleaving_mles_to_mles(w_in.src, w_in.log2_num_instances,
                                   w_in.log2_per_instance_size,
                                   w_in.num_limbs, w_in.default).mles
    [] w_in.kind = "par_product" -> product_cur_layer(w_in.src, 2)
    [] w_in.kind = "par_logup" ->
         LET pair == logup_next_pair(w_in.has_p, w_in.p, w_in.src)
         IN pair.p \o pair.q

\* C24: in interleaving_mles_to_mles, infer_tower_product_witness and
\* infer_tower_logup_witness no two tasks of the same parallel loop write
\* the same output element, and whatever the order in which the tasks ran,
\* the buffers hold, once the loops have joined, the layer the function
\* returns; until then every element no task has written holds its initial
\* value.
C24_ParallelWritesAreDisjoint ==
  /\ \A t1, t2 \in ParTasks :
       (t1 # t2 /\ (SameParallelLoop(t1, t2) \/ DifferentOuterTasks(t1, t2)))
         => write_targets(t1) \cap write_targets(t2) = {}
  /\ w_pc = "joined" => w_out.buf = ParSequentialResult
  /\ \A v \in 1..Len(w_out.buf) : \A pos \in 1..Len(w_out.buf[v]) :
       (\A t \in w_out.done : <<v, pos>> \notin write_targets(t))
         => w_out.buf[v][pos] = ParInitialBuffers[v][pos]

\* a loop of two tasks of interleaving_mles_to_mles has joined, each task
\* wrote its own instance chunk, and the padded elements were left alone
C24_Witness ==
  /\ w_in.kind = "par_interleave"
  /\ w_pc = "joined"
  /\ w_in.num_limbs = 1
  /\ Len(w_in.src) = 1
  /\ w_in.log2_per_instance_size = 1
  /\ w_in.default = 2
  /\ w_out.buf = <<<<1, 2, 2, 2>>>>

\* the sum over the boolean hypercube of a batched polynomial:
\* sum_x sum_t coef_t * prod_{i in idx_t} mles[i][x]
HypercubeSum(polys) ==
  SumSeq(collect([x \in 1..Len(polys.mles[1]) |->
    SumSeq(collect([t \in 1..Len(polys.terms) |->
      Fmul(polys.terms[t].coef,
           ProdSeq(collect([n \in 1..Len(polys.terms[t].idx) |->
                      polys.mles[polys.terms[t].idx[n]][x]])))]))]))

\* out_rt of the prover's k-th round: initial_rt, then the point the
\* round before recorded for the specs that took part in it
ProverOutRtOfRound(k) ==
  IF k = 1
  THEN <<p_tr.vals[CHOOSE n \in 1..Len(p_tr.ops) : p_tr.ops[n] = "product_sum"]>>
  ELSE LET j == CHOOSE i \in 1..Len(LayerCounts) : LayerCounts[i] > k - 1
       IN IF j <= Len(prod_specs)
          THEN proofs.prod_specs_points[j][k - 1]
          ELSE proofs.logup_specs_points[j - Len(prod_specs)][k - 1]

\* the batched polynomial the prover assembled in its k-th round
ProverPolysOfRound(k) ==
  round_polys(k, ProverOutRtOfRound(k),
              BatchOfDraw(p_tr, k, ProverBatchSize))

\* verify is about to hand the claim of a round to the sum-check verifier
VerifierHandsClaim ==
  /\ pc = "verify_round"
  /\ v_round < verifier_rounds
  /\ round_indices_ok(v_round)

\* the claim handed over is the hypercube sum of the prover's polynomial
ClaimIsBatchedSum ==
  /\ v_pe.point = ProverOutRtOfRound(v_round + 1)
  /\ v_pe.eval = HypercubeSum(ProverPolysOfRound(v_round + 1))

\* C25 (as stated): for an honest proof over specs of any layer counts, a
\* spec of one layer batched with deeper specs included, the claim verify
\* passes to the sum-check verifier in every round equals the sum over the
\* boolean hypercube of the batched polynomial the prover assembled for
\* that round.
C25_ClaimIsBatchedSumAnyMix ==
  (Honest /\ VerifierHandsClaim) => ClaimIsBatchedSum

\* C25 (what the code does): the claim equals that sum in every round when
\* no spec has exactly one layer.
C25_ClaimIsBatchedSumOfDeepSpecs ==
  (Honest /\ VerifierHandsClaim /\ AllDeep) => ClaimIsBatchedSum

\* the second round's claim of an honest proof over a spec of two layers
\* and a spec of three is about to be handed over: the exhausted spec has
\* left no summand in it
C25_Witness ==
  /\ Honest
  /\ VerifierHandsClaim
  /\ v_round = 1
  /\ \E i, j \in 1..Len(LayerCounts) : LayerCounts[i] = 2 /\ LayerCounts[j] = 3
  /\ v_pe.eval # 0
  /\ ClaimIsBatchedSum

\* the position of a transcript's k-th draw under a label
NthDraw(tr, label, k) ==
  CHOOSE n \in 1..Len(tr.ops) :
    /\ tr.ops[n] = label
    /\ Cardinality({m \in 1..n : tr.ops[m] = label}) = k

\* the r_merge of a transcript's k-th round
MergeOfRound(tr, k) == tr.vals[NthDraw(tr, "merge", k)]

\* (1 - r_merge) * e0 + r_merge * e1
LinearMerge(r_merge, e0, e1) ==
  Fadd(Fmul(Fsub(1, r_merge), e0), Fmul(r_merge, e1))

\* a prover round ends with the point: the sum-check's point, then r_merge
ProverRoundPoint ==
  (pc = "prover_round" /\ p_round' = p_round + 1)
    => LET polys == round_polys(p_round, p_rt, p_alpha)
           max_degree ==
             MaxSeq(collect([t \in 1..Len(polys.terms) |->
                               Len(polys.terms[t].idx)]))
           sc == prove_batch_polys(1, <<1>>, Len(p_rt), max_degree,
                                   polys.mles, polys.terms, p_tr)
       IN /\ p_rt' = sc.point \o <<MergeOfRound(p_tr', p_round)>>
          /\ Len(p_rt') = Len(sc.point) + 1
          /\ \A j \in 1..Len(LayerCounts) :
               prover_spec_active(p_round, IF j <= Len(prod_specs)
                                           THEN prod_specs[j]
                                           ELSE logup_specs[j - Len(prod_specs)])
                 => (IF j <= Len(prod_specs)
                     THEN proofs'.prod_specs_points[j][p_round]
                     ELSE proofs'.logup_specs_points[j - Len(prod_specs)][p_round])
                      = p_rt'

\* a verifier round that passes ends with the point: the sum-check's point,
\* then r_merge; for every spec not exhausted it holds the linear merge of
\* the round's evaluations, at that point
VerifierRoundPoint ==
  (pc = "verify_round" /\ v_round' = v_round + 1)
    => LET k == v_round + 1
           r_merge == MergeOfRound(v_tr', k)
           rt == v_log'[k].rt
       IN /\ v_pe'.point = rt \o <<r_merge>>
          /\ v_log'[k].rt_prime = v_pe'.point
          /\ \A i \in 1..num_prod_spec :
               verifier_spec_active(v_round, expected_rounds[i])
                 => LET e == tower_proofs.prod_specs_eval[i][k]
                    IN prod_spec_input_layer_eval'[i]
                         = [point |-> rt \o <<r_merge>>,
                            eval |-> LinearMerge(r_merge, e[1], e[2])]
          /\ \A i \in 1..num_logup_spec :
               verifier_spec_active(v_round, expected_rounds[num_prod_spec + i])
                 => LET e == tower_proofs.logup_specs_eval[i][k]
                    IN /\ logup_spec_p_input_layer_eval'[i]
                            = [point |-> rt \o <<r_merge>>,
                               eval |-> LinearMerge(r_merge, e[1], e[2])]
                       /\ logup_spec_q_input_layer_eval'[i]
                            = [point |-> rt \o <<r_merge>>,
                               eval |-> LinearMerge(r_merge, e[3], e[4])]

\* the points of the rounds the verifier passed are those the prover
\* recorded in the same rounds of an honest run
SamePointsBothSides ==
  Honest
    => \A k \in PassedRounds :
         /\ MergeOfRound(v_tr, k) = MergeOfRound(p_tr, k)
         /\ \A j \in 1..Len(LayerCounts) :
              LayerCounts[j] > k
                => (IF j <= Len(prod_specs)
                    THEN proofs.prod_specs_points[j][k]
                    ELSE proofs.logup_specs_points[j - Len(prod_specs)][k])
                     = v_log[k].rt_prime

RecordedPoints(j) ==
  IF j <= Len(prod_specs) THEN proofs.prod_specs_points[j]
  ELSE proofs.logup_specs_points[j - Len(prod_specs)]

\* the number of slots of a spec's leaf layer: the padded instance count
\* times the padded number of records per instance
LeafSlots(j) ==
  IF j <= Len(prod_specs)
  THEN LET leaf == prod_specs[j][Len(prod_specs[j])]
       IN Len(leaf[1]) + Len(leaf[2])
  ELSE LET w == logup_specs[j - Len(prod_specs)]
           leaf == w[Len(w)]
       IN Len(leaf[3]) + Len(leaf[4])

\* create_proof has returned
ProverReturned == pc \notin {"create_proof", "prover_round", "prover_panic"}

\* C27: the point the prover records in its k-th round has k + 1
\* coordinates; the final point create_proof returns, and the one verify
\* returns, has as many coordinates as the largest layer count among the
\* specs, which is the log2 of the largest leaf layer (log2 of the padded
\* instance count plus the largest log2 of the padded records per
\* instance).
C27_PointLengths ==
  /\ \A j \in 1..Len(LayerCounts) :
       p_round >= 1 =>
         \A k \in 1..Len(RecordedPoints(j)) : Len(RecordedPoints(j)[k]) = k + 1
  /\ ProverReturned
       => /\ Len(p_rt) = MaxSeq(LayerCounts)
          /\ Pow2(Len(p_rt))
               = MaxSeq(collect([j \in 1..Len(LayerCounts) |-> LeafSlots(j)]))
  /\ v_result = "ok"
       => /\ Len(v_ret[1]) = MaxSeq(expected_rounds)
          /\ Honest => Len(v_ret[1]) = MaxSeq(LayerCounts)

\* an honest proof over specs of two and of three layers has been accepted:
\* the points recorded have 2 and 3 coordinates, the final point 3
C27_Witness ==
  /\ Verified
  /\ Honest
  /\ v_result = "ok"
  /\ \E i, j \in 1..Len(LayerCounts) :
       /\ LayerCounts[i] = 2
       /\ LayerCounts[j] = 3
       /\ Len(RecordedPoints(i)) = 1
       /\ Len(RecordedPoints(j)) = 2
       /\ Len(RecordedPoints(j)[2]) = 3
  /\ Len(v_ret[1]) = 3
  /\ Len(p_rt) = 3

\* the evaluations of a layer's vectors at a point, in the layer's order:
\* branches 0 and 1 of a product spec, p1, p2, q1, q2 of a logup spec
LayerEvals(layer_polys, point) ==
  collect([f \in 1..Len(layer_polys) |-> evaluate(layer_polys[f], point)])

\* a prover round records, for every spec taking part, the evaluations of
\* the round's layer vectors at the sum-check point, and the final
\* evaluations are exactly the eq polynomial's and those recorded
ProverRoundRecordsLayerEvals ==
  (pc = "prover_round" /\ p_round' = p_round + 1)
    => LET point == SubSeq(p_rt', 1, Len(p_rt') - 1)
           polys == round_polys(p_round, p_rt, p_alpha)
           max_degree ==
             MaxSeq(collect([t \in 1..Len(polys.terms) |->
                               Len(polys.terms[t].idx)]))
           sc == prove_batch_polys(1, <<1>>, Len(p_rt), max_degree,
                                   polys.mles, polys.terms, p_tr)
           prod_active == {i \in 1..Len(prod_specs) :
                             prover_spec_active(p_round, prod_specs[i])}
           logup_active == {i \in 1..Len(logup_specs) :
                              prover_spec_active(p_round, logup_specs[i])}
       IN /\ point = sc.point
          /\ \A i \in prod_active :
               /\ Len(proofs'.prod_specs_eval[i]) = p_round
               /\ proofs'.prod_specs_eval[i][p_round]
                    = LayerEvals(prod_specs[i][p_round + 1], point)
               /\ Len(proofs'.prod_specs_eval[i][p_round]) = 2
          /\ \A i \in logup_active :
               /\ Len(proofs'.logup_specs_eval[i]) = p_round
               /\ proofs'.logup_specs_eval[i][p_round]
                    = LayerEvals(logup_specs[i][p_round + 1], point)
               /\ Len(proofs'.logup_specs_eval[i][p_round]) = 4
          /\ \A i \in 1..Len(prod_specs) :
               i \notin prod_active
                 => proofs'.prod_specs_eval[i] = proofs.prod_specs_eval[i]
          /\ \A i \in 1..Len(logup_specs) :
               i \notin logup_active
                 => proofs'.logup_specs_eval[i] = proofs.logup_specs_eval[i]
          /\ Len(sc.finals) = 1 + 2 * Cardinality(prod_active)
                                + 4 * Cardinality(logup_active)

\* the summands of expected_evaluation verify computed in round k of an
\* honest run are those of the prover's layer vectors evaluated at the
\* round's sum-check point: branch 0 times branch 1 for a product spec,
\* alpha_numerator * (p1 * q2 + p2 * q1) + alpha_denominator * (q1 * q2)
\* for a logup spec
VerifierReadsLayerEvals ==
  Honest
    => \A k \in 1..Len(v_log) :
         LET e == v_log[k]
             eq == eq_eval(e.out_rt, e.rt)
         IN /\ \A i \in 1..num_prod_spec :
                 LayerCounts[i] > k
                   => LET ev == LayerEvals(prod_specs[i][k + 1], e.rt)
                      IN e.terms[i]
                           = Fmul(Fmul(eq, e.alpha_pows[i]), Fmul(ev[1], ev[2]))
            /\ \A i \in 1..num_logup_spec :
                 LayerCounts[num_prod_spec + i] > k
                   => LET ev == LayerEvals(logup_specs[i][k + 1], e.rt)
                          alpha_numerator ==
                            e.alpha_pows[num_prod_spec + 2 * (i - 1) + 1]
                          alpha_denominator ==
                            e.alpha_pows[num_prod_spec + 2 * (i - 1) + 2]
                      IN e.terms[num_prod_spec + i]
                           = Fmul(eq,
                                Fadd(Fmul(alpha_numerator,
                                          Fadd(Fmul(ev[1], ev[4]),
                                               Fmul(ev[2], ev[3]))),
                                     Fmul(alpha_denominator,
                                          Fmul(ev[3], ev[4]))))

ExpectedLeafSlots(num_lks, num_instances) ==
  Pow2(ceil_log2(num_lks)) * next_pow2_instance_padding(num_instances)

\* the slots of the leaf layer the builder run started from
BuiltLeafSlots == Len(WitLeaf[3]) + Len(WitLeaf[4])

BuiltDeepLogup(i) == ~forged /\ Len(logup_specs[i]) >= 2

\* C30: for a logup spec of at least two layers built by
\* infer_tower_logup_witness, the numerator PointAndEval verify holds from
\* the spec's last round on, and returns, has evaluation exactly 1 whatever
\* the challenges, so the lookup-numerator check of an honest opcode proof
\* never fails.
C30_NumeratorIsOne ==
  /\ \A r_merge \in 0..(P - 1) :
       merged_eval(<<1, 1>>, build_eq_x_r_vec(<<r_merge>>)) = 1
  /\ (Honest /\ pc \in {"verify_round", "verify_done"})
       => \A i \in 1..num_logup_spec :
            (BuiltDeepLogup(i) /\ v_round >= Len(logup_specs[i]) - 1)
              => logup_spec_p_input_layer_eval[i].eval = 1
  /\ (Honest /\ v_result = "ok")
       => \A i \in 1..num_logup_spec :
            BuiltDeepLogup(i) => v_ret[3][i].eval = 1
  /\ (Honest /\ num_logup_spec >= 1 /\ BuiltDeepLogup(1))
       => op_result # "err_lookup_table_witness_not_one"

\* an honest opcode proof over two product specs of three layers and a
\* built logup spec of two has passed the numerator check: the numerator
\* was merged in the first round with a challenge other than 0 and 1 and
\* kept through the second
C30_Witness ==
  /\ Honest
  /\ op_result = "main_sel_sumcheck"
  /\ num_prod_spec = 2
  /\ num_logup_spec = 1
  /\ BuiltDeepLogup(1)
  /\ LayerCounts = <<3, 3, 2>>
  /\ PassedRounds = {1, 2}
  /\ MergeOfRound(v_tr, 1) \notin {0, 1}
  /\ v_ret[3][1].eval = 1
  /\ Len(v_ret[3][1].point) = 2

\* verify has ended a second time, on the proof with other points
VerifiedAgain == w_pc = "again" /\ VerifyEnded

\* C31: verify never reads prod_specs_points or logup_specs_points: called
\* on two proofs that differ in those fields only, it ends the same way,
\* with the same Ok value or the same error, and leaves the transcript in
\* the same state.
C31_PointsAreNotRead ==
  VerifiedAgain
    => /\ pc = w_out.pc
       /\ v_result = w_out.v_result
       /\ v_ret = w_out.v_ret
       /\ v_tr = w_out.v_tr
       /\ tower_proofs.proofs = w_out.tower_proofs.proofs
       /\ tower_proofs.prod_specs_eval = w_out.tower_proofs.prod_specs_eval
       /\ tower_proofs.logup_specs_eval = w_out.tower_proofs.logup_specs_eval

\* the honest proof of a product and a logup spec of three layers was
\* accepted, and accepted again with the lists of points gone
C31_Witness ==
  /\ VerifiedAgain
  /\ Honest
  /\ v_result = "ok"
  /\ LayerCounts = <<3, 3>>
  /\ Len(w_out.tower_proofs.prod_specs_points[1]) = 2
  /\ tower_proofs.prod_specs_points = <<>>
  /\ tower_proofs.logup_specs_points = <<>>
  /\ Len(v_tr.ops) > 0

\* every spec has exactly one layer
AllSingleLayer == \A j \in 1..Len(LayerCounts) : LayerCounts[j] = 1

\* verify was handed one expected round count per spec, none above 1, and
\* its assertions passed
VerifyOfSingleLayers ==
  /\ pc \notin {"create_proof", "prover_round", "prover_panic", "proved",
                "verify"}
  /\ SanityPassed
  /\ Len(expected_rounds) > 0
  /\ MaxSeq(expected_rounds) = 1

\* C32: when every spec has exactly one layer create_proof records no round
\* and verify performs none: it returns Ok with the one-coordinate initial
\* point and the default PointAndEval (empty point, evaluation 0) for every
\* spec, whatever the initial evaluations; more generally verify holds, and
\* returns, the default PointAndEval for any spec with a single layer.
C32_SingleLayerSpecs ==
  /\ (AllSingleLayer /\ ProverReturned)
       => /\ proofs = TowerProofs_new(Len(prod_specs), Len(logup_specs))
          /\ p_log = <<>>
          /\ Len(p_rt) = 1
  /\ VerifyOfSingleLayers
       => /\ pc \in {"verify_round", "verify_done"}
          /\ v_round = 0
          /\ v_log = <<>>
          /\ Len(v_pe.point) = 1
          /\ Cardinality({n \in 1..Len(v_tr.ops) : v_tr.ops[n] # "alpha"}) = 1
          /\ pc = "verify_done"
               => /\ v_result = "ok"
                  /\ v_ret = <<v_pe.point,
                               collect([i \in 1..num_prod_spec |->
                                          PointAndEvalDefault]),
                               collect([i \in 1..num_logup_spec |->
                                          PointAndEvalDefault]),
                               collect([i \in 1..num_logup_spec |->
                                          PointAndEvalDefault])>>
  /\ pc \in {"verify_round", "verify_done"}
       => \A j \in 1..Len(expected_rounds) :
            expected_rounds[j] = 1
              => /\ \A n \in 1..Len(HeldFor(j)) :
                      HeldFor(j)[n] = PointAndEvalDefault
                 /\ v_result = "ok"
                      => IF j <= num_prod_spec
                         THEN v_ret[2][j] = PointAndEvalDefault
                         ELSE /\ v_ret[3][j - num_prod_spec] = PointAndEvalDefault
                              /\ v_ret[4][j - num_prod_spec] = PointAndEvalDefault

\* verify has returned Ok for a product and a logup spec of one layer each,
\* with an initial evaluation that is not the prover's
C32_Witness ==
  /\ AllSingleLayer
  /\ LayerCounts = <<1, 1>>
  /\ num_logup_spec = 1
  /\ tampered.kind = "prod_out"
  /\ pc = "verify_done"
  /\ v_result = "ok"
  /\ Len(v_ret[1]) = 1
  /\ v_ret[2] = <<PointAndEvalDefault>>
  /\ v_ret[3] = <<PointAndEvalDefault>>
  /\ prod_out_evals # out_evals(prod_specs)

\* verify was called without product specs
LogupOnly == tampered.kind = "logup_only"

\* C33: create_proof fails an assertion when it is given no product spec,
\* logup specs or not, and returns no tower; verify accepts an empty list
\* of product specs, as verify_table_proof hands it, and verifies the tower
\* of the logup specs alone.
C33_LogupOnlyTower ==
  /\ (Len(prod_specs) = 0 /\ pc # "create_proof")
       => /\ Len(logup_specs) > 0
          /\ pc \notin {"prover_round", "proved"}
          /\ p_round = 0
          /\ proofs = TowerProofs_new(0, 0)
  /\ LogupOnly
       => /\ num_prod_spec = 0
          /\ SanityPassed
          /\ pc \in {"verify", "verify_round", "verify_done"}
          /\ pc = "verify_done"
               => /\ v_result = "ok"
                  /\ v_ret[2] = <<>>
                  /\ Len(v_ret[3]) = num_logup_spec
                  /\ Len(v_log) = MaxSeq(expected_rounds) - 1
                  /\ PassedRounds = 1..Len(v_log)

\* create_proof has refused a logup spec of three layers on its own, and
\* verify has accepted the tower of that spec in two rounds
C33_Witness ==
  /\ LogupOnly
  /\ Len(prod_specs) = 0
  /\ LayerCounts = <<3>>
  /\ pc = "verify_done"
  /\ v_result = "ok"
  /\ PassedRounds = {1, 2}
  /\ proofs = TowerProofs_new(0, 0)
  /\ Len(tower_proofs.logup_specs_eval[1]) = 2

(***************************************************************************)
(* verify_proof's decision.                                                *)
(***************************************************************************)
RECURSIVE VmOpcodeFractions(_)
VmOpcodeFractions(ops) ==
  IF Len(ops) = 0 THEN 0
  ELSE Fadd(Fadd(Fmul(Head(ops).lk_p1_out_eval, Finv(Head(ops).lk_q1_out_eval)),
                 Fmul(Head(ops).lk_p2_out_eval, Finv(Head(ops).lk_q2_out_eval))),
            VmOpcodeFractions(Tail(ops)))

RECURSIVE VmPaddedSlots(_, _)
VmPaddedSlots(ops, num_lks) ==
  IF Len(ops) = 0 THEN 0
  ELSE dummy_table_item_multiplicity(num_lks, Head(ops).num_instances)
         + VmPaddedSlots(Tail(ops), num_lks)

RECURSIVE VmProduct(_, _)
VmProduct(ops, field) ==
  IF Len(ops) = 0 THEN 1
  ELSE Fmul(ProdSeq(Head(ops)[field]), VmProduct(Tail(ops), field))

\* the opcode proofs' logup fractions, less the table proofs' fractions,
\* less the dummy padding term
VmLogupTotal ==
  Fsub(Fsub(VmOpcodeFractions(w_in.opcode_proofs),
            VmOpcodeFractions(w_in.table_proofs)),
       Fmul(VmPaddedSlots(w_in.opcode_proofs, w_in.num_lks) % P,
            Finv(w_in.dummy_table_item)))

\* verify_proof went through both loops and reached its last test
VmDecided ==
  /\ w_pc = "vm_done"
  /\ w_out.result \notin {"err_pcs", "err_vk_not_found", "err_opcode_proof",
                          "err_table_proof"}

\* C34: when verify_proof returns after every opcode and table proof has
\* verified, it returns Ok(true) if the accumulated logup sum less the dummy
\* padding term is zero and Err(VerifyError) if it is not; prod_r and prod_w
\* are accumulated from the proofs' read and write out evaluations and have
\* no part in the returned value.  Every other return is the error of a
\* commitment, of a missing verifying key or of an opcode or table proof.
\* verify_proof returns nothing only when an out evaluation it inverts, or
\* the dummy table item, is zero.
C34_AcceptIgnoresReadWriteProducts ==
  /\ w_pc = "vm_done"
       => w_out.result \in {"ok_true", "err_logup_sum", "err_pcs",
                            "err_vk_not_found", "err_opcode_proof",
                            "err_table_proof"}
  /\ VmDecided
       => /\ w_out.opcodes = Len(w_in.opcode_proofs)
          /\ w_out.tables = Len(w_in.table_proofs)
          /\ w_out.prod_r = VmProduct(w_in.opcode_proofs, "record_r_out_evals")
          /\ w_out.prod_w = VmProduct(w_in.opcode_proofs, "record_w_out_evals")
          /\ w_out.logup_sum = VmLogupTotal
          /\ w_out.result = IF VmLogupTotal = 0 THEN "ok_true"
                            ELSE "err_logup_sum"
  /\ w_pc = "vm_panic"
       => \/ \E i \in 1..Len(w_in.opcode_proofs) :
               w_in.opcode_proofs[i].lk_q1_out_eval = 0
          \/ \E i \in 1..Len(w_in.table_proofs) :
               w_in.table_proofs[i].lk_q1_out_eval = 0
          \/ w_in.dummy_table_item = 0

\* Ok(true) for two opcode proofs and a table proof whose read product is
\* not the write product, with padding slots to take off
C34_Witness ==
  /\ w_pc = "vm_done"
  /\ w_out.result = "ok_true"
  /\ w_out.opcodes = 2
  /\ w_out.tables = 1
  /\ w_out.prod_r # w_out.prod_w
  /\ w_out.dummy_table_item_multiplicity > 0
  /\ w_in.table_proofs[1].lk_p1_out_eval # 0

(***************************************************************************)
(* MemWordChange.                                                          *)
(***************************************************************************)
\* the constraints of construct_circuit that the assigned columns break
FailedConstraints ==
  construct_circuit(w_in.n_zeros, w_in.shift, w_in.prev_value,
                    w_in.rs2_value, w_out)

\* the two bytes of the limb the shift selects, of the previous word and
\* of the rs2 word
PrevTargetBytes ==
  to_le_bytes(as_u16_limbs(w_in.prev_value)[((w_in.shift \div 2) % 2) + 1])

Rs2TargetBytes ==
  to_le_bytes(as_u16_limbs(w_in.rs2_value)[((w_in.shift \div 2) % 2) + 1])

\* the claim of C35 as the spec words it: for both N_ZEROS, every shift and
\* all words, the assigned columns satisfy every required equality
C35_AssignedChangesSatisfyCircuit ==
  w_pc = "assigned" => FailedConstraints = {}

\* C35: what the code does.  For store byte the byte decompositions and
\* expected_change always hold, and expected_limb_change holds exactly when
\* the shift is even or the high bytes of the two target limbs are equal
\* (assign_instance writes 0 for an odd shift).  For store half
\* expected_change holds exactly when the shift selects the high limb or
\* the two limbs of the rs2 word are equal (the circuit subtracts
\* prev_limbs[0] from rs2_limbs[1]).
C35_AssignedChangesUpToTwoBranches ==
  w_pc = "assigned"
    => /\ w_in.n_zeros = 0
            => /\ FailedConstraints \subseteq {"expected_limb_change"}
               /\ FailedConstraints = {}
                    <=> \/ w_in.shift % 2 = 0
                        \/ Rs2TargetBytes[2] = PrevTargetBytes[2]
       /\ w_in.n_zeros = 1
            => FailedConstraints = {}
                 <=> \/ (w_in.shift \div 2) % 2 = 1
                     \/ as_u16_limbs(w_in.rs2_value)[2]
                          = as_u16_limbs(w_in.rs2_value)[1]

\* a store byte into byte 2 of the word: the low byte of the high limb
\* changes and both expected changes are as the circuit requires
C35_Witness ==
  /\ w_pc = "assigned"
  /\ w_in.n_zeros = 0
  /\ w_in.shift = 2
  /\ Rs2TargetBytes[1] # PrevTargetBytes[1]
  /\ Rs2TargetBytes[2] # PrevTargetBytes[2]
  /\ w_out.expected_changes[2] = LimbBase * w_out.expected_changes[1]
  /\ w_out.expected_changes[1] # 0
  /\ FailedConstraints = {}

====
